---- MODULE Spec2Model ----
(***************************************************************************)
(* Capture orchestration engine of MINICAM (src/app.py):                   *)
(*   - the live-frame ingestion pipeline: StreamWorker threads, the frame  *)
(*     queue, the Tk main thread's poller, stream start and restart;       *)
(*   - the auto-capture scheduler: App.toggle_auto and its run_auto loop;  *)
(*   - the PTZ sequence controller: App._snapshot_onvif_sequence;          *)
(*   - capture requests: App.snapshot and the checks of App.toggle_auto;   *)
(*   - the snapshot batch: App._snapshot_selected and its shoot tasks;     *)
(*   - profile selection and the capture task: App._select_profile and     *)
(*     App._onvif_snapshot_profile;                                        *)
(*   - the time estimate of a sequence:                                    *)
(*     App._estimate_onvif_sequence_time;                                  *)
(*   - the capture jobs in flight: the threads started by App.snapshot     *)
(*     and by the run_auto loop;                                           *)
(*   - the files of a sequence run: the names made from the steps' names.  *)
(* Each part has its own variables and its own specification.              *)
(***************************************************************************)
EXTENDS Integers, Sequences, FiniteSets, TLC

(***************************************************************************)
(* Bounds of the model.                                                    *)
(***************************************************************************)
\* StreamWorker threads ever started
MaxWorkers == 2
\* frames ever put into the frame queue
MaxPublish == 3
\* clicks on the unlock dialog's button whose outcome is still pending
MaxClicks == 2
\* auto-capture loop threads ever started
MaxSessions == 2
\* largest period (seconds) and largest maximum count entered
MaxDelaySec == 1
MaxCountIn == 2
\* triggers of one session (a session without maximum count is cut here)
MaxTriggers == 3
\* steps of a sequence definition
MaxSteps == 3
\* status polls of one wait for idle before its timeout has elapsed
MaxPolls == 2
\* longest hold of a continuous step, in tenths of a second
MaxHold == 6
\* capture jobs ever started
MaxJobs == 3
\* characters of a step's name
MaxNameLen == 2
\* cameras a snapshot batch can be asked for
MaxCams == 3
\* profiles of a camera, the largest area of a resolution, and the largest
\* frame rate an encoder offers
MaxProfiles == 3
MaxArea == 3
MaxRate == 2

(***************************************************************************)
(* Part 1: frame ingestion.  One camera (cam_cfg.ips[:1]), one Queue().    *)
(***************************************************************************)
VARIABLES
  stop_event,     \* App.stop_event, the Event every StreamWorker shares
  frame_q,        \* App.frame_queues[0]: sequence of frames, head = oldest
  workers,        \* App.workers: the worker ids _start_streams last stored
  wpc,            \* position of each StreamWorker thread in run()
  epoch,          \* per worker: number of completed restarts when it started
  nstarted,       \* StreamWorker threads started so far
  restarts,       \* completed calls of _restart_streams
  mainpc,         \* position of the Tk main thread
  closing,        \* App._closing
  dlgOpen,        \* the unlock dialog of _prompt_password exists
  authInFlight,   \* try_unlock worker threads testing the password
  unlockPending,  \* queued after(0, self._unlock_app) callbacks
  latest_frames,  \* App.latest_frames[0], NoFrame when None
  published,      \* frames put so far; a frame's n is its publish number
  taken,          \* history: number of frames the poller has taken
  dropped,        \* history: publish number of the frame a worker discarded
                  \* last, 0 when none
  staleTaken      \* the poller took a frame of a worker started before
                  \* the last completed restart

streamVars == <<stop_event, frame_q, workers, wpc, epoch, nstarted, restarts,
                mainpc, closing, dlgOpen, authInFlight, unlockPending,
                latest_frames, published, taken, dropped, staleTaken>>

WorkerIds == 1..MaxWorkers
NoFrame == [by |-> 0, n |-> 0]

\* the calls of run() that can block longer than join's timeout of 0.5 s:
\* cv2.VideoCapture(url) and cap.read()
Blocking == {"open", "read"}

Running(w) == wpc[w] \notin {"idle", "done"}

\* frames read but not yet put
InFlight == Cardinality({w \in WorkerIds : wpc[w] \in {"get", "put"}})

StreamInit ==
  /\ stop_event = FALSE
  /\ frame_q = <<>>
  /\ workers = <<>>
  /\ wpc = [w \in WorkerIds |-> "idle"]
  /\ epoch = [w \in WorkerIds |-> 0]
  /\ nstarted = 0
  /\ restarts = 0
  /\ mainpc = "idle"
  /\ closing = FALSE
  /\ dlgOpen = TRUE
  /\ authInFlight = 0
  /\ unlockPending = 0
  /\ latest_frames = NoFrame
  /\ published = 0
  /\ taken = 0
  /\ dropped = 0
  /\ staleTaken = FALSE

(* ---- StreamWorker.run ------------------------------------------------- *)

\* self.cap = cv2.VideoCapture(self.url), then the first test of the loop
\* condition; when the stop event is set the loop is left, the capture is
\* released and the thread ends
WOpen(w) ==
  /\ wpc[w] = "open"
  /\ wpc' = [wpc EXCEPT ![w] = IF stop_event THEN "done" ELSE "read"]
  /\ UNCHANGED <<stop_event, frame_q, workers, epoch, nstarted, restarts,
                 mainpc, closing, dlgOpen, authInFlight, unlockPending,
                 latest_frames, published, taken, dropped, staleTaken>>

\* while not self.stop_event.is_set(), after a put or a failed read; after the
\* loop: if self.cap: self.cap.release()
WCheck(w) ==
  /\ wpc[w] = "check"
  /\ wpc' = [wpc EXCEPT ![w] = IF stop_event THEN "done" ELSE "read"]
  /\ UNCHANGED <<stop_event, frame_q, workers, epoch, nstarted, restarts,
                 mainpc, closing, dlgOpen, authInFlight, unlockPending,
                 latest_frames, published, taken, dropped, staleTaken>>

\* a failed read ends the worker
FailedReadEnds == "done"

\* if not ok: time.sleep(0.1); continue: back to the test of the loop
AfterFailedRead == "check"

\* ok, frame = self.cap.read(); a failed read sleeps 0.1 s and continues;
\* with a frame: if self.frame_q.qsize() > 1
WRead(w) ==
  /\ wpc[w] = "read"
  /\ \E ok \in BOOLEAN :
       /\ ok => published + InFlight < MaxPublish
       /\ wpc' = [wpc EXCEPT ![w] = IF ~ok THEN AfterFailedRead
                                    ELSE IF Len(frame_q) > 1 THEN "get"
                                    ELSE "put"]
  /\ UNCHANGED <<stop_event, frame_q, workers, epoch, nstarted, restarts,
                 mainpc, closing, dlgOpen, authInFlight, unlockPending,
                 latest_frames, published, taken, dropped, staleTaken>>

\* the frame get_nowait removes from a non-empty Queue: the oldest
DiscardIndex(q) == 1

RemoveAt(q, i) == [j \in 1..(Len(q) - 1) |-> IF j < i THEN q[j] ELSE q[j + 1]]

\* try: self.frame_q.get_nowait() except Empty: pass
WGet(w) ==
  /\ wpc[w] = "get"
  /\ IF frame_q = <<>>
       THEN UNCHANGED <<frame_q, dropped>>
       ELSE /\ frame_q' = RemoveAt(frame_q, DiscardIndex(frame_q))
            /\ dropped' = frame_q[DiscardIndex(frame_q)].n
  /\ wpc' = [wpc EXCEPT ![w] = "put"]
  /\ UNCHANGED <<stop_event, workers, epoch, nstarted, restarts,
                 mainpc, closing, dlgOpen, authInFlight, unlockPending,
                 latest_frames, published, taken, staleTaken>>

\* self.frame_q.put(frame): Queue() is unbounded, put never blocks
WPut(w) ==
  /\ wpc[w] = "put"
  /\ frame_q' = Append(frame_q, [by |-> w, n |-> published + 1])
  /\ published' = published + 1
  /\ wpc' = [wpc EXCEPT ![w] = "check"]
  /\ UNCHANGED <<stop_event, workers, epoch, nstarted, restarts,
                 mainpc, closing, dlgOpen, authInFlight, unlockPending,
                 latest_frames, taken, dropped, staleTaken>>

(* ---- unlocking: App._prompt_password, _unlock_app, _start_streams ----- *)

\* try_unlock with a non-empty password: starts a thread testing it
TryUnlock ==
  /\ mainpc = "idle"
  /\ dlgOpen
  /\ authInFlight + unlockPending < MaxClicks
  /\ authInFlight' = authInFlight + 1
  /\ UNCHANGED <<stop_event, frame_q, workers, wpc, epoch, nstarted, restarts,
                 mainpc, closing, dlgOpen, unlockPending,
                 latest_frames, published, taken, dropped, staleTaken>>

\* try_unlock.worker: on success queues dlg.destroy and self._unlock_app
AuthDone ==
  /\ authInFlight > 0
  /\ authInFlight' = authInFlight - 1
  /\ \E ok \in BOOLEAN :
       unlockPending' = IF ok THEN unlockPending + 1 ELSE unlockPending
  /\ UNCHANGED <<stop_event, frame_q, workers, wpc, epoch, nstarted, restarts,
                 mainpc, closing, dlgOpen, latest_frames, published, taken,
                 dropped, staleTaken>>

\* _start_streams: clears the stop event, forgets the stored workers and
\* starts one new StreamWorker on the same queue and the same stop event
StartStreams ==
  /\ stop_event' = FALSE
  /\ nstarted' = nstarted + 1
  /\ workers' = <<nstarted + 1>>
  /\ wpc' = [wpc EXCEPT ![nstarted + 1] = "open"]
  /\ epoch' = [epoch EXCEPT ![nstarted + 1] = restarts']

\* the queued dlg.destroy and _unlock_app callbacks; _unlock_app ends in
\* _post_unlock_start, which calls _start_streams
UnlockApp ==
  /\ mainpc = "idle"
  /\ unlockPending > 0
  /\ nstarted < MaxWorkers
  /\ unlockPending' = unlockPending - 1
  /\ dlgOpen' = FALSE
  /\ restarts' = restarts
  /\ StartStreams
  /\ UNCHANGED <<frame_q, mainpc, closing, authInFlight,
                 latest_frames, published, taken, dropped, staleTaken>>

(* ---- App._restart_streams (from _on_stream_change) -------------------- *)

\* self.stop_event.set()
RestartBegin ==
  /\ mainpc = "idle"
  /\ ~dlgOpen
  /\ ~closing
  /\ nstarted < MaxWorkers
  /\ stop_event' = TRUE
  /\ mainpc' = "join"
  /\ UNCHANGED <<frame_q, workers, wpc, epoch, nstarted, restarts,
                 closing, dlgOpen, authInFlight, unlockPending,
                 latest_frames, published, taken, dropped, staleTaken>>

\* worker.join(timeout=0.5) returns: the worker has ended, or the timeout
\* has elapsed with the worker still inside a blocking call
JoinReturns(w) == wpc[w] = "done" \/ wpc[w] \in Blocking

\* for worker in self.workers: worker.join(timeout=0.5); stop_event.clear()
RestartJoin ==
  /\ mainpc = "join"
  /\ \A i \in 1..Len(workers) : JoinReturns(workers[i])
  /\ stop_event' = FALSE
  /\ mainpc' = "drain"
  /\ UNCHANGED <<frame_q, workers, wpc, epoch, nstarted, restarts,
                 closing, dlgOpen, authInFlight, unlockPending,
                 latest_frames, published, taken, dropped, staleTaken>>

\* while not q.empty(): q.get_nowait()
RestartDrain ==
  /\ mainpc = "drain"
  /\ IF frame_q = <<>>
       THEN /\ mainpc' = "start"
            /\ UNCHANGED frame_q
       ELSE /\ frame_q' = Tail(frame_q)
            /\ UNCHANGED mainpc
  /\ UNCHANGED <<stop_event, workers, wpc, epoch, nstarted, restarts,
                 closing, dlgOpen, authInFlight, unlockPending,
                 latest_frames, published, taken, dropped, staleTaken>>

\* self._start_streams() at the end of _restart_streams
RestartStart ==
  /\ mainpc = "start"
  /\ restarts' = restarts + 1
  /\ StartStreams
  /\ mainpc' = "idle"
  /\ UNCHANGED <<frame_q, closing, dlgOpen, authInFlight,
                 unlockPending, latest_frames, published, taken, dropped,
                 staleTaken>>

(* ---- App._poll_frames ------------------------------------------------- *)

\* a take of the newest frame instead of the oldest
TakeNewest(q) == Len(q)

\* the frame the poller's q.get_nowait() returns and removes: the oldest
TakeIndex(q) == 1

\* if self._closing or self.stop_event.is_set(): return
\* frame = q.get_nowait(); self.latest_frames[idx] = frame
PollFrames ==
  /\ mainpc = "idle"
  /\ ~closing
  /\ ~stop_event
  /\ frame_q # <<>>
  /\ LET f == frame_q[TakeIndex(frame_q)] IN
       /\ frame_q' = RemoveAt(frame_q, TakeIndex(frame_q))
       /\ latest_frames' = f
       /\ taken' = taken + 1
       /\ staleTaken' = (staleTaken \/ epoch[f.by] < restarts)
  /\ UNCHANGED <<stop_event, workers, wpc, epoch, nstarted, restarts,
                 mainpc, closing, dlgOpen, authInFlight, unlockPending,
                 published, dropped>>

(* ---- App._on_close ---------------------------------------------------- *)

\* self._closing = True; self.stop_event.set(); join; self.destroy()
OnClose ==
  /\ mainpc = "idle"
  /\ ~dlgOpen
  /\ ~closing
  /\ closing' = TRUE
  /\ stop_event' = TRUE
  /\ mainpc' = "closed"
  /\ UNCHANGED <<frame_q, workers, wpc, epoch, nstarted, restarts,
                 dlgOpen, authInFlight, unlockPending,
                 latest_frames, published, taken, dropped, staleTaken>>


(***************************************************************************)
(* Part 2: the auto-capture scheduler, App.toggle_auto and run_auto.       *)
(* Time is counted in ticks of 50 ms.  The clock time.monotonic() has no    *)
(* variable of its own: each thread's next_time is kept as its distance    *)
(* from the clock, which is run_auto's `remaining = next_time - now`, and  *)
(* a step that takes d ticks lowers the remaining of every live thread.    *)
(***************************************************************************)
VARIABLES
  auto_stop,      \* App._auto_stop
  auto_thread,    \* App._auto_thread: id of the thread last started, 0 = None
  auto_btn,       \* text of App.auto_btn
  status_var,     \* App.status_var as toggle_auto and run_auto set it
  auto_onvif_dir, \* App._auto_onvif_dir is not None
  apc,            \* position of each run_auto thread
  count,          \* run_auto's count
  remaining,      \* run_auto's next_time - time.monotonic()
  delay_sec,      \* the period the thread was started with, in seconds
  max_count,      \* the maximum count it was started with, 0 = None
  seqMode,        \* it was started with a sequence definition loaded
  btnResets,      \* queued after(0, auto_btn.configure(text="Start"))
  sched,          \* history: next_time minus the thread's first next_time
  fired,          \* history: triggers the thread has begun
  late,           \* history: begin of the trigger that has just begun, minus
                  \* its scheduled time
  fit,            \* history: every job of the live loop so far took at
                  \* most one period
  userActed,      \* history: toggle_auto has changed the stop flag or the
                  \* button since the thread was started
  afterStop       \* history: triggers begun while the stop flag was set

autoVars == <<auto_stop, auto_thread, auto_btn, status_var, auto_onvif_dir,
              apc, count, remaining, delay_sec, max_count, seqMode,
              btnResets, sched, fired, late, fit, userActed, afterStop>>

\* the parameters a started thread keeps
autoParams == <<delay_sec, max_count, seqMode>>

\* the history of a thread's triggers
autoHist == <<sched, fired, late, fit, userActed, afterStop>>

\* what only the main thread writes
autoMain == <<auto_thread, auto_btn, status_var, auto_onvif_dir>>

AutoIds == 1..MaxSessions

\* one tick is 50 ms
TicksPerSec == 20

\* time.sleep(min(0.1, remaining)): 0.1 s in ticks
SliceTicks == 2

\* by how much one time.sleep may oversleep: less than one slice
Jitters == 0..(SliceTicks - 1)

Min(a, b) == IF a < b THEN a ELSE b

\* period of thread t in ticks
Period(t) == delay_sec[t] * TicksPerSec

\* how long one job may take, in ticks: no time, half a second, one second,
\* and more than two seconds
JobTicks == {0, TicksPerSec \div 2, TicksPerSec, 2 * TicksPerSec + 5}

\* threading.Thread.is_alive()
IsAlive(t) == apc[t] \notin {"idle", "done", "crashed"}

\* the text of delay_var and maxcap_var: empty, not a number, or a number
TextInputs(maxv) ==
  {[kind |-> "empty", val |-> 0], [kind |-> "text", val |-> 0]}
    \cup {[kind |-> "int", val |-> v] : v \in 0..maxv}

\* int(delay) succeeds and the value is at least 1
ValidInt(in) == in.kind = "int" /\ in.val >= 1

AutoInit ==
  /\ auto_stop = FALSE
  /\ auto_thread = 0
  /\ auto_btn = "Start"
  /\ status_var = "Locked"
  /\ auto_onvif_dir = FALSE
  /\ apc = [t \in AutoIds |-> "idle"]
  /\ count = [t \in AutoIds |-> 0]
  /\ remaining = [t \in AutoIds |-> 0]
  /\ delay_sec = [t \in AutoIds |-> 0]
  /\ max_count = [t \in AutoIds |-> 0]
  /\ seqMode = [t \in AutoIds |-> FALSE]
  /\ btnResets = 0
  /\ sched = [t \in AutoIds |-> 0]
  /\ fired = [t \in AutoIds |-> 0]
  /\ late = [t \in AutoIds |-> 0]
  /\ fit = [t \in AutoIds |-> TRUE]
  /\ userActed = [t \in AutoIds |-> FALSE]
  /\ afterStop = [t \in AutoIds |-> 0]

(* ---- App.toggle_auto -------------------------------------------------- *)

\* the stop flag taken for the loop's liveness
LoopNotStopped == auto_thread # 0 /\ ~auto_stop

\* if self._auto_thread and self._auto_thread.is_alive()
LoopAlive == auto_thread # 0 /\ IsAlive(auto_thread)

\* a loop is alive: set the stop flag, show "Start", return
ToggleStop ==
  /\ LoopAlive
  /\ auto_stop' = TRUE
  /\ status_var' = "Stopping"
  /\ auto_btn' = "Start"
  /\ userActed' = [userActed EXCEPT ![auto_thread] = TRUE]
  /\ UNCHANGED <<auto_thread, auto_onvif_dir, apc, count, remaining,
                 btnResets, autoParams, sched, fired, late, fit, afterStop>>

\* the stop flag cleared before the fields are looked at
ClearedFirst(flag) == FALSE

\* lines 684-705: the returns on the fields come before _auto_stop.clear()
\* of line 707, the stop flag is as it was
StopFlagAfterInvalid(flag) == flag

\* the early returns on the period and the maximum count
ToggleInvalid ==
  /\ ~LoopAlive
  /\ \E d \in TextInputs(MaxDelaySec) :
       IF d.kind = "empty" THEN status_var' = "Delay is required"
       ELSE IF ~ValidInt(d) THEN status_var' = "Delay must be >= 1"
       ELSE /\ \E m \in TextInputs(MaxCountIn) :
                 m.kind # "empty" /\ ~ValidInt(m)
            /\ status_var' = "Max capture must be >= 1"
  /\ auto_stop' = StopFlagAfterInvalid(auto_stop)
  /\ UNCHANGED <<auto_thread, auto_btn, auto_onvif_dir, apc, count,
                 remaining, btnResets, autoParams, autoHist>>

\* a sequence definition is loaded and the period is shorter than the
\* estimate, or the destination is no directory: clear the stop flag, show
\* "Stop", then show "Start" again and return
ToggleRejected ==
  /\ ~LoopAlive
  /\ \E m \in TextInputs(MaxCountIn) : m.kind = "empty" \/ ValidInt(m)
  /\ \E d \in TextInputs(MaxDelaySec), est \in 0..(MaxDelaySec + 1),
        dirOk \in BOOLEAN :
       /\ ValidInt(d)
       /\ d.val < est \/ ~dirOk
       /\ status_var' = IF d.val < est THEN "Delay too short"
                        ELSE "Select an existing folder"
  /\ auto_stop' = FALSE
  /\ auto_btn' = "Start"
  /\ auto_onvif_dir' = FALSE
  /\ userActed' = [u \in AutoIds |-> userActed[u] \/ u = auto_thread]
  /\ UNCHANGED <<auto_thread, apc, count, remaining, btnResets,
                 autoParams, sched, fired, late, fit, afterStop>>

\* the record f of the threads, with the entries of ended threads (whose
\* locals and parameters are gone) set back to v
Forget(f, v) == [u \in AutoIds |-> IF IsAlive(u) THEN f[u] ELSE v]

\* the checks pass: clear the stop flag, show "Stop", start run_auto
ToggleStart ==
  /\ ~LoopAlive
  /\ auto_thread < MaxSessions
  /\ \E d \in TextInputs(MaxDelaySec), m \in TextInputs(MaxCountIn),
        seq \in BOOLEAN :
       /\ ValidInt(d)
       /\ m.kind = "empty" \/ ValidInt(m)
       /\ LET t == auto_thread + 1 IN
            /\ auto_thread' = t
            /\ apc' = [apc EXCEPT ![t] = "init"]
            /\ delay_sec' = [Forget(delay_sec, 0) EXCEPT ![t] = d.val]
            /\ max_count' = [Forget(max_count, 0) EXCEPT ![t] =
                               IF m.kind = "empty" THEN 0 ELSE m.val]
            /\ seqMode' = [Forget(seqMode, FALSE) EXCEPT ![t] = seq]
       /\ auto_onvif_dir' = seq
  /\ auto_stop' = FALSE
  /\ auto_btn' = "Stop"
  /\ count' = Forget(count, 0)
  /\ remaining' = Forget(remaining, 0)
  /\ sched' = Forget(sched, 0)
  /\ fired' = Forget(fired, 0)
  /\ late' = Forget(late, 0)
  /\ fit' = Forget(fit, TRUE)
  /\ userActed' = Forget(userActed, FALSE)
  /\ afterStop' = Forget(afterStop, 0)
  /\ UNCHANGED <<status_var, btnResets>>

\* the queued auto_btn.configure(text="Start") of an ended loop
BtnReset ==
  /\ btnResets > 0
  /\ btnResets' = btnResets - 1
  /\ auto_btn' = "Start"
  /\ UNCHANGED <<auto_stop, auto_thread, status_var, auto_onvif_dir, apc,
                 count, remaining, autoParams, autoHist>>

(* ---- run_auto --------------------------------------------------------- *)

\* d ticks pass: the clock moves away from every live thread's next_time
Elapse(d) == [u \in AutoIds |-> IF IsAlive(u) THEN remaining[u] - d
                                   ELSE remaining[u]]

\* count = 0; next_time = time.monotonic()
RunInit(t) ==
  /\ apc[t] = "init"
  /\ count' = [count EXCEPT ![t] = 0]
  /\ remaining' = [remaining EXCEPT ![t] = 0]
  /\ sched' = [sched EXCEPT ![t] = 0]
  /\ apc' = [apc EXCEPT ![t] = "top"]
  /\ UNCHANGED <<auto_stop, autoMain, autoParams, btnResets,
                 fired, late, fit, userActed, afterStop>>

\* a loop that never looks at the stop flag
LoopForever == TRUE

\* the loop condition: not self._auto_stop.is_set()
LoopCondition == ~auto_stop

\* while not self._auto_stop.is_set()
RunTop(t) ==
  /\ apc[t] = "top"
  /\ apc' = [apc EXCEPT ![t] = IF LoopCondition THEN "fire" ELSE "exit"]
  /\ UNCHANGED <<auto_stop, autoMain, count, remaining, btnResets,
                 autoParams, autoHist>>

\* next_time = now + delay_sec, as an addition to next_time
StepFromNow(t) == Period(t) - remaining[t]

\* next_time += delay_sec: what is added to next_time
ScheduleStep(t) == Period(t)

\* next_time += delay_sec; ts = ...; the capture job is called
RunFire(t) ==
  /\ apc[t] = "fire"
  /\ fired[t] < MaxTriggers
  /\ late' = [late EXCEPT ![t] = 0 - remaining[t]]
  /\ remaining' = [remaining EXCEPT ![t] = @ + ScheduleStep(t)]
  /\ sched' = [sched EXCEPT ![t] = @ + ScheduleStep(t)]
  /\ fired' = [fired EXCEPT ![t] = @ + 1]
  /\ afterStop' = [afterStop EXCEPT ![t] = IF auto_stop THEN @ + 1 ELSE @]
  /\ apc' = [apc EXCEPT ![t] = "job"]
  /\ UNCHANGED <<auto_stop, autoMain, count, btnResets, autoParams,
                 fit, userActed>>

\* the job: _snapshot_onvif_sequence runs in this thread, takes its time and
\* may raise (its connect and its snapshot calls are not guarded);
\* _snapshot_selected_async only starts a thread.  The locals of a thread
\* that ends are gone.
RunJob(t) ==
  /\ apc[t] = "job"
  /\ \E d \in JobTicks, raises \in BOOLEAN :
       /\ ~(seqMode[t] /\ auto_onvif_dir) => (d = 0 /\ ~raises)
       /\ IF raises
            THEN /\ apc' = [apc EXCEPT ![t] = "crashed"]
                 /\ count' = [count EXCEPT ![t] = 0]
                 /\ remaining' = [remaining EXCEPT ![t] = 0]
                 /\ fit' = [fit EXCEPT ![t] = TRUE]
            ELSE /\ apc' = [apc EXCEPT ![t] = "count"]
                 /\ remaining' = Elapse(d)
                 /\ fit' = [fit EXCEPT ![t] = @ /\ d <= Period(t)]
                 /\ UNCHANGED count
  /\ late' = [late EXCEPT ![t] = 0]
  /\ UNCHANGED <<auto_stop, autoMain, btnResets, autoParams, sched, fired,
                 userActed, afterStop>>

\* count += 1; if max_count is not None and count >= max_count: break
RunCount(t) ==
  /\ apc[t] = "count"
  /\ count' = [count EXCEPT ![t] = @ + 1]
  /\ apc' = [apc EXCEPT ![t] =
               IF max_count[t] # 0 /\ count[t] + 1 >= max_count[t]
                 THEN "exit" ELSE "sleep"]
  /\ UNCHANGED <<auto_stop, autoMain, remaining, btnResets, autoParams,
                 autoHist>>

\* while not stop: remaining = next_time - now; if remaining <= 0: break;
\* time.sleep(min(0.1, remaining))
RunSleep(t) ==
  /\ apc[t] = "sleep"
  /\ IF auto_stop \/ remaining[t] <= 0
       THEN /\ apc' = [apc EXCEPT ![t] = "top"]
            /\ UNCHANGED remaining
       ELSE /\ \E j \in Jitters :
                 remaining' = Elapse(Min(SliceTicks, remaining[t]) + j)
            /\ UNCHANGED apc
  /\ UNCHANGED <<auto_stop, autoMain, count, btnResets,
                 autoParams, autoHist>>

\* self._auto_stop.set(); self.after(0, ... text="Start"); the thread ends
\* and its locals are gone
RunExit(t) ==
  /\ apc[t] = "exit"
  /\ auto_stop' = TRUE
  /\ btnResets' = btnResets + 1
  /\ apc' = [apc EXCEPT ![t] = "done"]
  /\ count' = [count EXCEPT ![t] = 0]
  /\ remaining' = [remaining EXCEPT ![t] = 0]
  /\ fit' = [fit EXCEPT ![t] = TRUE]
  /\ UNCHANGED <<autoMain, autoParams, sched, fired, late, userActed,
                 afterStop>>


(***************************************************************************)
(* Part 3: the PTZ sequence controller, App._snapshot_onvif_sequence with  *)
(* _apply_onvif_step and _wait_ptz_idle: one run over a sequence           *)
(* definition.  Every device call may fail.                                *)
(***************************************************************************)
VARIABLES
  nsteps,         \* len(steps) of the sequence definition
  step,           \* the step the loop is at
  spc,            \* position of the run
  cur,            \* i + 1 of the for loop: the step being processed
  polls,          \* status polls of the current wait for idle
  pendingExc,     \* an exception raised inside the try of line 1123
  hold,           \* the duration of the continuous step being held and the
                  \* time the hold has slept, in tenths of a second
  seq_status,     \* App.status_var as the run sets it
  captured,       \* history: the steps _onvif_snapshot_profile has captured
  failed,         \* history: the steps whose _apply_onvif_step raised
  lastFailure,    \* history: the last call that made _apply_onvif_step raise
  stepErrors,     \* history: "ONVIF step error" messages set
  raisedBy,       \* history: the call whose exception ended the run
  visited,        \* history: the steps in the order the loop took them
  lastCall,       \* history: the last device call and the step it was for
  orderBroken     \* history: a device call was made for an earlier step
                  \* than the device call before it

seqVars == <<nsteps, step, spc, cur, polls, pendingExc, hold, seq_status,
             captured, failed, lastFailure, stepErrors, raisedBy, visited,
             lastCall, orderBroken>>

\* ptz_cfg.get("duration_sec", 0): absent, a text that is no number, or a
\* number of tenths of a second
Durations ==
  {[kind |-> "absent", val |-> 0], [kind |-> "text", val |-> 0]}
    \union {[kind |-> "number", val |-> v] : v \in (-1)..MaxHold}

NoDuration == [kind |-> "absent", val |-> 0]

NoHold == [duration |-> NoDuration, slept |-> 0]

\* `if duration`: a text and a number other than 0 count as given
Given(d) == d.kind = "text" \/ (d.kind = "number" /\ d.val # 0)

\* float(duration) raises on the text, time.sleep on a negative number
SleepRaises(d) == d.kind = "text" \/ (d.kind = "number" /\ d.val < 0)

\* 0.5 s in tenths of a second
HalfSecond == 5

\* the hold sleeps what the step says, also when it says nothing
HoldAsGiven(d) == d.val

\* line 1123: float(duration) if duration else 0.5
HoldTime(d) == IF Given(d) THEN d.val ELSE HalfSecond

\* a step of the definition: the type of its ptz mapping ("none": no ptz
\* mapping, or one without pan, tilt and zoom) and whether it has focus
\* directives
StepKinds ==
  [type : {"continuous", "absolute", "relative", "none"}, focus : BOOLEAN]

NoStep == [type |-> "none", focus |-> FALSE]

NoCall == [step |-> 0, call |-> "none"]

SeqInit ==
  /\ nsteps = 0
  /\ step = NoStep
  /\ spc = "idle"
  /\ cur = 0
  /\ polls = 0
  /\ pendingExc = FALSE
  /\ hold = NoHold
  /\ seq_status = "none"
  /\ captured = <<>>
  /\ failed = {}
  /\ lastFailure = NoCall
  /\ stepErrors = 0
  /\ raisedBy = "none"
  /\ visited = <<>>
  /\ lastCall = NoCall
  /\ orderBroken = FALSE

\* the device call `name`, made for step i
Called(i, name) ==
  /\ lastCall' = [step |-> i, call |-> name]
  /\ orderBroken' = (orderBroken \/ i < lastCall.step)

\* snapshot() or run_auto calls _snapshot_onvif_sequence with the steps of
\* _load_onvif_settings, a list that is not empty.  A step is read once, when
\* the loop reaches it, and the model draws it there.
SeqStart ==
  /\ spc = "idle"
  /\ spc' = "connect"
  /\ nsteps' \in 1..MaxSteps
  /\ UNCHANGED hold
  /\ UNCHANGED <<step, cur, polls, pendingExc, seq_status, captured, failed,
                 lastFailure, stepErrors, raisedBy, visited, lastCall,
                 orderBroken>>

\* a loop that leaves out every other step
SkipIndex(i) == i + 2

\* the index the for loop takes after step i
NextIndex(i) == i + 1

\* for i, step in enumerate(steps): the loop takes the next step, or ends
\* and sets "Snapshots saved"
Advance ==
  IF NextIndex(cur) \in 1..nsteps
    THEN /\ cur' = NextIndex(cur)
         /\ step' \in StepKinds
         /\ visited' = Append(visited, NextIndex(cur))
         /\ spc' = "move"
         /\ UNCHANGED seq_status
    ELSE /\ spc' = "done"
         /\ seq_status' = "Snapshots saved"
         /\ UNCHANGED <<cur, step, visited>>

\* lines 1045-1052: camera, media service, GetProfiles, ptz and imaging
\* services; an exception here leaves _snapshot_onvif_sequence
SeqConnect ==
  /\ spc = "connect"
  /\ \E ok \in BOOLEAN :
       IF ok THEN /\ Advance
                  /\ UNCHANGED raisedBy
             ELSE /\ spc' = "raised"
                  /\ raisedBy' = "connect"
                  /\ UNCHANGED <<cur, step, visited, seq_status>>
  /\ UNCHANGED hold
  /\ UNCHANGED <<nsteps, polls, pendingExc, captured, failed, lastFailure,
                 stepErrors, lastCall, orderBroken>>

\* a step error that ends the whole run
AbortRun == "raised"

\* except Exception of line 1059: the status is set and the loop continues
AfterStepError == "continue"

\* _apply_onvif_step has raised in the call `what`
StepError(what) ==
  /\ failed' = failed \cup {cur}
  /\ lastFailure' = [step |-> cur, call |-> what]
  /\ IF AfterStepError = "continue"
       THEN /\ stepErrors' = stepErrors + 1
            /\ raisedBy' = raisedBy
            /\ IF NextIndex(cur) \in 1..nsteps
                 THEN /\ cur' = NextIndex(cur)
                      /\ step' \in StepKinds
                      /\ visited' = Append(visited, NextIndex(cur))
                      /\ spc' = "move"
                      /\ seq_status' = "ONVIF step error"
                 ELSE /\ spc' = "done"
                      /\ seq_status' = "Snapshots saved"
                      /\ UNCHANGED <<cur, step, visited>>
       ELSE /\ spc' = "raised"
            /\ raisedBy' = "step"
            /\ UNCHANGED <<stepErrors, cur, step, visited, seq_status>>

\* the move call of the step's type
MoveCall(k) == CASE k.type = "continuous" -> "ContinuousMove"
                 [] k.type = "absolute" -> "AbsoluteMove"
                 [] OTHER -> "RelativeMove"

\* the payload is built with float(), which raises on a value that is no
\* number; ptz.ContinuousMove / AbsoluteMove / RelativeMove; a step without
\* motion goes on to its focus settings
SeqMove ==
  /\ spc = "move"
  /\ LET k == step IN
       IF k.type = "none"
         THEN /\ spc' = "focus"
              /\ UNCHANGED <<cur, step, visited, seq_status, failed,
                             lastFailure, stepErrors, raisedBy, lastCall,
                             orderBroken, polls>>
         ELSE \E r \in {"badvalue", "raises", "ok"} :
                CASE r = "badvalue" ->
                       /\ StepError("float")
                       /\ UNCHANGED <<polls, lastCall, orderBroken>>
                  [] r = "raises" ->
                       /\ Called(cur, MoveCall(k))
                       /\ StepError(MoveCall(k))
                       /\ UNCHANGED polls
                  [] OTHER ->
                       /\ Called(cur, MoveCall(k))
                       /\ spc' = IF k.type = "continuous" THEN "hold"
                                 ELSE "poll"
                       /\ polls' = 0
                       /\ UNCHANGED <<cur, step, visited, seq_status, failed,
                                      lastFailure, stepErrors, raisedBy>>
  /\ UNCHANGED hold
  /\ UNCHANGED <<nsteps, pendingExc, captured>>

\* try: time.sleep(float(duration) if duration else 0.5): float() and sleep
\* raise on a duration that is no number or is negative
SeqHold ==
  /\ spc = "hold"
  /\ \E d \in Durations :
       /\ pendingExc' = SleepRaises(d)
       /\ hold' = [duration |-> d,
                   slept |-> IF SleepRaises(d) THEN 0 ELSE HoldTime(d)]
  /\ spc' = "stop"
  /\ UNCHANGED <<nsteps, cur, step, polls, seq_status, captured, failed,
                 lastFailure, stepErrors, raisedBy, visited, lastCall,
                 orderBroken>>

\* finally: ptz.Stop(...)
SeqStop ==
  /\ spc = "stop"
  /\ Called(cur, "Stop")
  /\ pendingExc' = FALSE
  /\ hold' = NoHold
  /\ \E ok \in BOOLEAN :
       IF ok /\ ~pendingExc
         THEN /\ spc' = "poll"
              /\ polls' = 0
              /\ UNCHANGED <<cur, step, visited, seq_status, failed,
                             lastFailure, stepErrors, raisedBy>>
         ELSE /\ StepError(IF pendingExc THEN "sleep" ELSE "Stop")
              /\ UNCHANGED polls
  /\ UNCHANGED <<nsteps, captured>>

\* _wait_ptz_idle: status = ptz.GetStatus(...); return when both are IDLE,
\* else sleep 0.1 s and poll again until 8 s have passed
SeqPoll ==
  /\ spc = "poll"
  /\ Called(cur, "GetStatus")
  /\ \E reply \in {"raises", "idle", "moving"}, timeout \in BOOLEAN :
       CASE reply = "raises" ->
              /\ StepError("GetStatus")
              /\ UNCHANGED polls
         [] reply = "idle" ->
              /\ spc' = "focus"
              /\ UNCHANGED <<polls, cur, step, visited, seq_status, failed,
                             lastFailure, stepErrors, raisedBy>>
         [] OTHER ->
              /\ polls' = polls + 1
              /\ spc' = IF timeout \/ polls + 1 >= MaxPolls THEN "focus"
                        ELSE "poll"
              /\ UNCHANGED <<cur, step, visited, seq_status, failed,
                             lastFailure, stepErrors, raisedBy>>
  /\ UNCHANGED hold
  /\ UNCHANGED <<nsteps, pendingExc, captured>>

\* settings = img.GetImagingSettings(...); return when it has no Focus
SeqFocus ==
  /\ spc = "focus"
  /\ Called(cur, "GetImagingSettings")
  /\ \E reply \in {"raises", "nofocus", "focus"} :
       CASE reply = "raises" -> StepError("GetImagingSettings")
         [] reply = "nofocus" ->
              /\ spc' = "snap"
              /\ UNCHANGED <<cur, step, visited, seq_status, failed,
                             lastFailure, stepErrors, raisedBy>>
         [] OTHER ->
              /\ spc' = "setfocus"
              /\ UNCHANGED <<cur, step, visited, seq_status, failed,
                             lastFailure, stepErrors, raisedBy>>
  /\ UNCHANGED hold
  /\ UNCHANGED <<nsteps, polls, pendingExc, captured>>

\* img.SetImagingSettings(...): the step's directives, or AutoFocusMode AUTO
SeqSetFocus ==
  /\ spc = "setfocus"
  /\ Called(cur, IF step.focus THEN "SetImagingSettings"
                 ELSE "SetImagingSettingsAuto")
  /\ \E ok \in BOOLEAN :
       IF ok THEN /\ spc' = "snap"
                  /\ UNCHANGED <<cur, step, visited, seq_status, failed,
                                 lastFailure, stepErrors, raisedBy>>
             ELSE StepError("SetImagingSettings")
  /\ UNCHANGED hold
  /\ UNCHANGED <<nsteps, polls, pendingExc, captured>>

\* time.sleep(delay_val); self._onvif_snapshot_profile(...): not guarded, an
\* exception leaves _snapshot_onvif_sequence
SeqSnapshot ==
  /\ spc = "snap"
  /\ Called(cur, "Snapshot")
  /\ \E ok \in BOOLEAN :
       IF ok THEN /\ captured' = Append(captured, cur)
                  /\ Advance
                  /\ UNCHANGED raisedBy
             ELSE /\ spc' = "raised"
                  /\ raisedBy' = "snapshot"
                  /\ UNCHANGED <<captured, cur, step, visited, seq_status>>
  /\ UNCHANGED hold
  /\ UNCHANGED <<nsteps, polls, pendingExc, failed, lastFailure, stepErrors>>


(***************************************************************************)
(* Part 4: capture requests.  App.snapshot and the checks of               *)
(* App.toggle_auto on the destination folder and the sequence definition   *)
(* file (App._load_onvif_settings), with what a request goes on to do.     *)
(* Part 2 draws the outcome of these checks; here the checks themselves    *)
(* are modelled, and the loop is followed up to its first trigger.         *)
(***************************************************************************)
VARIABLES
  req,            \* history: the inputs of the last request
  rpc,            \* "idle", the job the request's thread is about to run,
                  \* or "over" when the request has nothing left to run
  req_status,     \* App.status_var as the request sets it
  fx              \* history: what the last request has done so far

reqVars == <<req, rpc, req_status, fx>>

\* what onvif_settings_var names: nothing, or a file that is rejected at one
\* of the tests of _load_onvif_settings, or a well-formed definition
FileKinds == {"unset", "wrongext", "missing", "parsefail", "noname",
              "badname", "nosteps", "ok"}

Malformed(file) == file \notin {"unset", "ok"}

\* the status _load_onvif_settings sets, "keep" when it sets none
LoadStatus(file) ==
  CASE file = "wrongext" -> "ONVIF settings must be a .toml file"
    [] file = "missing" -> "ONVIF settings file not found"
    [] file = "parsefail" -> "ONVIF settings parse failed"
    [] file = "noname" -> "ONVIF settings missing name"
    [] file = "badname" -> "ONVIF settings invalid name"
    [] file = "nosteps" -> "ONVIF settings missing steps"
    [] OTHER -> "keep"

\* _load_onvif_settings returns a definition
Loaded(file) == file = "ok"

StatusAfter(old, new) == IF new = "keep" THEN old ELSE new

\* the inputs of a request: the handler, whether the destination folder
\* exists, the file named, whether _onvif_targets() is non-empty, whether a
\* camera is ticked, whether a frame has been received, whether the period
\* and maximum count fields are valid, the period and the estimate.  Frames
\* come from the cameras of cam_cfg.ips, which are targets too.
Requests ==
  {r \in [kind : {"snapshot", "auto"}, dirOk : BOOLEAN, file : FileKinds,
          onvif : BOOLEAN, ticked : BOOLEAN, frame : BOOLEAN,
          formOk : BOOLEAN, delay : 1..MaxDelaySec,
          est : 0..(MaxDelaySec + 1)] : r.frame => r.onvif}

NoRequest ==
  [kind |-> "none", dirOk |-> TRUE, file |-> "unset", onvif |-> FALSE,
   ticked |-> FALSE, frame |-> FALSE, formOk |-> TRUE, delay |-> 1,
   est |-> 0]

\* nothing done: no directory made, no thread and no loop started, no
\* device call made, no image file written
NoEffect ==
  [mkdir |-> FALSE, thread |-> FALSE, loop |-> FALSE, device |-> FALSE,
   file |-> FALSE]

ReqInit ==
  /\ req = NoRequest
  /\ rpc = "idle"
  /\ req_status = "Locked"
  /\ fx = NoEffect

\* a comparison that lets every period pass
PeriodNotChecked(d, e) == FALSE

\* if delay_sec < est
PeriodTooShort(d, e) == d < e

\* snapshot(): the folder test, the definition file, then one of: the
\* sequence thread, the batch thread, the latest frame written to a file
ReqSnapshot ==
  /\ rpc = "idle"
  /\ \E r \in Requests :
       /\ r.kind = "snapshot"
       /\ req' = r
       /\ IF ~r.dirOk
            THEN /\ req_status' = "Select an existing folder"
                 /\ fx' = NoEffect
                 /\ rpc' = "over"
          ELSE IF Loaded(r.file) /\ r.onvif
            THEN /\ req_status' = req_status
                 /\ fx' = [NoEffect EXCEPT !.mkdir = TRUE, !.thread = TRUE]
                 /\ rpc' = "sequence"
          ELSE IF r.onvif
            THEN /\ req_status' = StatusAfter(req_status, LoadStatus(r.file))
                 /\ fx' = [NoEffect EXCEPT !.thread = TRUE]
                 /\ rpc' = "batch"
          ELSE IF ~r.frame
            THEN /\ req_status' = StatusAfter(req_status, LoadStatus(r.file))
                 /\ fx' = NoEffect
                 /\ rpc' = "over"
          ELSE /\ req_status' = "Saved"
               /\ fx' = [NoEffect EXCEPT !.file = TRUE]
               /\ rpc' = "over"

\* toggle_auto() with no loop alive: the fields, the definition file, the
\* period against the estimate, the folder, then run_auto is started and
\* begins its first trigger
ReqToggleAuto ==
  /\ rpc = "idle"
  /\ \E r \in Requests :
       /\ r.kind = "auto"
       /\ req' = r
       /\ IF ~r.formOk
            THEN /\ req_status' = "Delay must be >= 1"
                 /\ fx' = NoEffect
                 /\ rpc' = "over"
          ELSE IF Loaded(r.file) /\ r.onvif /\ PeriodTooShort(r.delay, r.est)
            THEN /\ req_status' = "Delay too short"
                 /\ fx' = NoEffect
                 /\ rpc' = "over"
          ELSE IF Loaded(r.file) /\ r.onvif /\ ~r.dirOk
            THEN /\ req_status' = "Select an existing folder"
                 /\ fx' = NoEffect
                 /\ rpc' = "over"
          ELSE IF Loaded(r.file) /\ r.onvif
            THEN /\ req_status' = req_status
                 /\ fx' = [NoEffect EXCEPT !.mkdir = TRUE, !.thread = TRUE,
                                           !.loop = TRUE]
                 /\ rpc' = "sequence"
          ELSE /\ req_status' = StatusAfter(req_status, LoadStatus(r.file))
               /\ fx' = [NoEffect EXCEPT !.thread = TRUE, !.loop = TRUE]
               /\ rpc' = "batch"

\* the thread runs _snapshot_onvif_sequence: it connects to the camera and
\* captures its steps, or fails doing so
ReqSequenceJob ==
  /\ rpc = "sequence"
  /\ \E ok \in BOOLEAN :
       /\ fx' = [fx EXCEPT !.device = TRUE, !.file = ok]
       /\ req_status' = IF ok THEN "Snapshots saved" ELSE req_status
  /\ rpc' = "over"
  /\ UNCHANGED req

\* the thread runs _snapshot_selected: without a ticked camera it sets
\* "Select cameras"; for each ticked camera that has a target it makes the
\* camera's directory (with its parents) and starts a capture task
ReqBatchJob ==
  /\ rpc = "batch"
  /\ IF ~req.ticked
       THEN /\ req_status' = "Select cameras"
            /\ UNCHANGED fx
       ELSE /\ req_status' = "Snapshots saved"
            /\ IF req.onvif
                 THEN \E ok \in BOOLEAN :
                        fx' = [fx EXCEPT !.mkdir = TRUE, !.device = TRUE,
                                         !.file = ok]
                 ELSE UNCHANGED fx
  /\ rpc' = "over"
  /\ UNCHANGED req


\* the request is over: its record is dropped, the status stays
ReqReturn ==
  /\ rpc = "over"
  /\ rpc' = "idle"
  /\ req' = NoRequest
  /\ fx' = NoEffect
  /\ UNCHANGED req_status

(***************************************************************************)
(* Part 5: one snapshot batch.  App._snapshot_selected (the orchestrator   *)
(* thread) and its shoot tasks, which meet at a threading.Barrier before   *)
(* they capture.  Cameras are numbered from 1 as in "Camera {idx + 1}".    *)
(***************************************************************************)
VARIABLES
  bpc,            \* position of the orchestrator in _snapshot_selected
  vars_list,      \* the value of each camera's IntVar when the batch began
  selected,       \* the cameras whose IntVar is 1 (line 634)
  jobs,           \* the cameras a job was made for (lines 643-653)
  tpc,            \* position of each camera's shoot task
  bstate,         \* threading.Barrier._state: filling, draining or broken
  bcount,         \* threading.Barrier._count: the tasks inside wait()
  joined,         \* the tasks the orchestrator's join has returned for
  connected,      \* history: the cameras a task has tried to connect to
  failedCams,     \* history: the cameras whose capture raised
  files,          \* the cameras whose snapshot file has been written
  dirs,           \* the cameras whose folder has been made
  reported,       \* number of "Snapshots saved" the batch has scheduled
  batch_status    \* App.status_var as the batch sets it

batchVars ==
  <<bpc, vars_list, selected, jobs, tpc, bstate, bcount, joined, connected,
    failedCams, files, dirs, reported, batch_status>>

Cams == 1..MaxCams

BatchInit ==
  /\ bpc = "idle"
  /\ vars_list = [i \in Cams |-> 0]
  /\ selected = {}
  /\ jobs = {}
  /\ tpc = [i \in Cams |-> "none"]
  /\ bstate = "filling"
  /\ bcount = 0
  /\ joined = {}
  /\ connected = {}
  /\ failedCams = {}
  /\ files = {}
  /\ dirs = {}
  /\ reported = 0
  /\ batch_status = "none"

\* every camera counts as selected
AllCams(ticks) == Cams

\* line 634: the cameras whose variable holds 1
SelectedOf(ticks) == {i \in Cams : ticks[i] = 1}

\* a barrier error ends the task
BarrierErrorEnds == "done"

\* lines 657-660: an exception of barrier.wait is passed over, the task
\* goes on to its capture
AfterBarrierError == "shoot"

\* the completion is reported only when no capture failed
ReportIfNoFailure(f) == f = {}

\* lines 670-672: the completion is reported whatever the tasks did
ReportWhen(f) == TRUE

\* lines 632-653: the selection is read; without a selected camera the batch
\* ends with "Select cameras"; else the barrier is made for the selected
\* cameras, and a folder and a job for each of them that has a target
BatchStart ==
  /\ bpc = "idle"
  /\ \E ticks \in [Cams -> {0, 1}], ntargets \in 0..MaxCams :
       LET sel == SelectedOf(ticks)
           js == {i \in sel : i <= ntargets}
       IN /\ vars_list' = ticks
          /\ selected' = sel
          /\ IF sel = {}
               THEN /\ batch_status' = "Select cameras"
                    /\ bpc' = "over"
                    /\ UNCHANGED <<jobs, dirs, tpc>>
               ELSE /\ jobs' = js
                    /\ dirs' = js
                    /\ tpc' = [i \in Cams |->
                                 IF i \in js THEN "ready" ELSE "none"]
                    /\ bpc' = IF js = {} THEN "join" ELSE "spawn"
                    /\ UNCHANGED batch_status
  /\ UNCHANGED <<bstate, bcount, joined, connected, failedCams, files,
                 reported>>

\* the first camera of a set
First(S) == CHOOSE i \in S : \A j \in S : i <= j

\* lines 666-669: the next job's thread is started
BatchSpawn ==
  /\ bpc = "spawn"
  /\ LET ready == {i \in jobs : tpc[i] = "ready"}
     IN /\ tpc' = [tpc EXCEPT ![First(ready)] = "start"]
        /\ bpc' = IF ready = {First(ready)} THEN "join" ELSE "spawn"
  /\ UNCHANGED <<vars_list, selected, jobs, bstate, bcount, joined, connected,
                 failedCams, files, dirs, reported, batch_status>>

\* lines 670-671: t.join(timeout=6) of the next thread returns, because the
\* task has ended or because 6 seconds have passed
BatchJoin ==
  /\ bpc = "join"
  /\ joined # jobs
  /\ joined' = joined \union {First(jobs \ joined)}
  /\ UNCHANGED <<bpc, vars_list, selected, jobs, tpc, bstate, bcount,
                 connected, failedCams, files, dirs, reported, batch_status>>

\* line 672: after the joins the completion is reported
BatchReport ==
  /\ bpc = "join"
  /\ joined = jobs
  /\ bpc' = "over"
  /\ IF ReportWhen(failedCams)
       THEN /\ reported' = reported + 1
            /\ batch_status' = "Snapshots saved"
       ELSE UNCHANGED <<reported, batch_status>>
  /\ UNCHANGED <<vars_list, selected, jobs, tpc, bstate, bcount, joined,
                 connected, failedCams, files, dirs>>

\* a barrier of one party: nobody waits for anybody
NoRendezvous(sel) == 1

\* line 639: threading.Barrier(len(selected)), the parties of the barrier
Parties(sel) == Cardinality(sel)

\* Barrier._exit: the task leaves wait(); the last one out of a draining
\* barrier makes it ready for the next round
BarrierAfterExit(c) ==
  IF c = 0 /\ bstate = "draining" THEN "filling" ELSE bstate

\* lines 657-658: the task calls barrier.wait(timeout=2).  On a broken
\* barrier it raises at once; the task that completes the parties releases
\* the others and returns; any other task waits.
TaskEnter(i) ==
  /\ tpc[i] = "start"
  /\ IF bstate = "broken"
       THEN /\ tpc' = [tpc EXCEPT ![i] = AfterBarrierError]
            /\ UNCHANGED <<bstate, bcount>>
       ELSE IF bcount + 1 = Parties(selected)
         THEN /\ tpc' = [tpc EXCEPT ![i] = "shoot"]
              /\ bcount' = bcount
              /\ bstate' = IF bcount = 0 THEN "filling" ELSE "draining"
         ELSE /\ tpc' = [tpc EXCEPT ![i] = "wait"]
              /\ bcount' = bcount + 1
              /\ UNCHANGED bstate
  /\ UNCHANGED <<bpc, vars_list, selected, jobs, joined, connected,
                 failedCams, files, dirs, reported, batch_status>>

\* the waiting task is released by the task that completed the parties
TaskReleased(i) ==
  /\ tpc[i] = "wait"
  /\ bstate = "draining"
  /\ tpc' = [tpc EXCEPT ![i] = "shoot"]
  /\ bcount' = bcount - 1
  /\ bstate' = BarrierAfterExit(bcount - 1)
  /\ UNCHANGED <<bpc, vars_list, selected, jobs, joined, connected,
                 failedCams, files, dirs, reported, batch_status>>

\* the waiting task's 2 seconds pass before the parties are complete: it
\* breaks the barrier and raises BrokenBarrierError; or it finds the barrier
\* broken by another task and raises likewise
TaskBarrierError(i) ==
  /\ tpc[i] = "wait"
  /\ bstate \in {"filling", "broken"}
  /\ tpc' = [tpc EXCEPT ![i] = AfterBarrierError]
  /\ bcount' = bcount - 1
  /\ bstate' = "broken"
  /\ UNCHANGED <<bpc, vars_list, selected, jobs, joined, connected,
                 failedCams, files, dirs, reported, batch_status>>

\* lines 661-664: the capture; an exception ends the task silently
TaskShoot(i) ==
  /\ tpc[i] = "shoot"
  /\ tpc' = [tpc EXCEPT ![i] = "done"]
  /\ connected' = connected \union {i}
  /\ \E ok \in BOOLEAN :
       IF ok THEN /\ files' = files \union {i}
                  /\ UNCHANGED failedCams
             ELSE /\ failedCams' = failedCams \union {i}
                  /\ UNCHANGED files
  /\ UNCHANGED <<bpc, vars_list, selected, jobs, bstate, bcount, joined, dirs,
                 reported, batch_status>>

(***************************************************************************)
(* Part 6: the profiles of a camera.  A profile is modelled by the number  *)
(* area() computes for it: width times height of its encoder's resolution, *)
(* or 0 when that cannot be read.  A profile is named by its position in   *)
(* the list GetProfiles returned; 0 names no profile (None).               *)
(***************************************************************************)
VARIABLES
  selpc,          \* "idle" or "returned": a call of _select_profile
  sel_profiles,   \* the argument of the call
  stream_var,     \* App.stream_var at the call
  sel_result      \* the profile the call returned

selectVars == <<selpc, sel_profiles, stream_var, sel_result>>

\* the lists of profiles a camera may return
RECURSIVE ListsUpTo(_)
ListsUpTo(n) ==
  IF n = 0 THEN {<<>>}
  ELSE LET shorter == ListsUpTo(n - 1)
       IN shorter \union
            {Append(l, a) : l \in {s \in shorter : Len(s) = n - 1},
                            a \in 0..MaxArea}

ProfileLists == ListsUpTo(MaxProfiles)

\* the list as it is
Unsorted(ps) == [k \in 1..Len(ps) |-> k]

\* sorted(profiles, key=area): the positions in ascending order of area,
\* profiles of equal area in their order in the list
SortedByArea(ps) ==
  LET before(i, j) == ps[i] < ps[j] \/ (ps[i] = ps[j] /\ i < j)
      rank(i) == Cardinality({j \in 1..Len(ps) : before(j, i)}) + 1
  IN [k \in 1..Len(ps) |-> CHOOSE i \in 1..Len(ps) : rank(i) = k]

\* App._select_profile
SelectProfile(ps, stream) ==
  IF Len(ps) = 0 THEN 0
  ELSE IF Len(ps) = 1 THEN 1
  ELSE LET sorted_profiles == SortedByArea(ps)
       IN IF stream = "main" THEN sorted_profiles[Len(ps)]
          ELSE sorted_profiles[1]

SelectInit ==
  /\ selpc = "idle"
  /\ sel_profiles = <<>>
  /\ stream_var = "main"
  /\ sel_result = 0

\* a call of _select_profile
SelectCall ==
  /\ selpc = "idle"
  /\ \E ps \in ProfileLists, stream \in {"main", "sub"} :
       /\ sel_profiles' = ps
       /\ stream_var' = stream
       /\ sel_result' = SelectProfile(ps, stream)
  /\ selpc' = "returned"

\* the caller has used the result
SelectReturn ==
  /\ selpc = "returned"
  /\ selpc' = "idle"
  /\ sel_profiles' = <<>>
  /\ stream_var' = "main"
  /\ sel_result' = 0

(***************************************************************************)
(* Part 7: one capture task.  App._onvif_snapshot_profile: connect, raise  *)
(* the main profile's encoder, ask for the snapshot URI, fetch the image   *)
(* and write the file.  Every device call may raise, which ends the task.  *)
(***************************************************************************)
VARIABLES
  cpc,            \* position of the task in _onvif_snapshot_profile
  cprofiles,      \* profiles, as _onvif_connect returned them
  stream_type,    \* 0 for "main", 1 for "sub" (App._stream_type)
  enc_main,       \* enc_main: the options the code reads, see EncOptions
  rateControl,    \* whether cfg_main.RateControl is there
  installed,      \* the configuration SetVideoEncoderConfiguration sent
  uriToken,       \* the profile GetSnapshotUri was asked for, 0 if none
  fetchedFrom,    \* the profile whose snapshot image was fetched, or 0
  cfile,          \* whether the file at path has been written
  craised         \* whether the task ended by an exception

captureVars ==
  <<cpc, cprofiles, stream_type, enc_main, rateControl, installed,
    uriToken, fetchedFrom, cfile, craised>>

\* enc_main is the first of the H264, H265 and JPEG options that is there;
\* res are the areas of its ResolutionsAvailable (empty when there is no
\* enc_main or no such list), fr is FrameRateRange.Max (0 when there is no
\* range)
EncOptions == [res : SUBSET (1..MaxArea), fr : 0..MaxRate]

NoEnc == [res |-> {}, fr |-> 0]

\* no configuration sent
NoCfg == [res |-> 0, fr |-> 0, sent |-> FALSE]

\* lines 985-987: the largest and the smallest profile
MainProfile(ps) == SortedByArea(ps)[Len(ps)]
SubProfile(ps) == SortedByArea(ps)[1]

\* line 988
TargetProfile(main, sub, st) == IF st = 0 THEN main ELSE sub

\* the snapshot is asked of the profile the stream type names
UriOfTarget(main, target) == target

\* line 1008: the snapshot is asked of the main profile
UriProfile(main, target) == main

\* lines 997-999: the first resolution of the list sorted by falling area
TopOf(res) == CHOOSE a \in res : \A b \in res : b <= a

\* lines 995-1004: cfg_main after the edits; fr = 0 stands for a frame rate
\* limit left as it was
NewConfig(area, enc, rate) ==
  [res |-> IF enc.res # {} THEN TopOf(enc.res) ELSE area,
   fr |-> IF enc.fr > 0 /\ rate THEN enc.fr ELSE 0,
   sent |-> TRUE]

CaptureInit ==
  /\ cpc = "idle"
  /\ cprofiles = <<>>
  /\ stream_type = 0
  /\ enc_main = NoEnc
  /\ rateControl = FALSE
  /\ installed = NoCfg
  /\ uriToken = 0
  /\ fetchedFrom = 0
  /\ cfile = FALSE
  /\ craised = FALSE

\* the task ends by an exception
CapRaise ==
  /\ cpc' = "over"
  /\ craised' = TRUE

\* lines 973-975: _onvif_connect; it may raise, and no profile raises
CapConnect ==
  /\ cpc = "idle"
  /\ \E ps \in ProfileLists, st \in {0, 1}, ok \in BOOLEAN :
       IF ok /\ Len(ps) > 0
         THEN /\ cprofiles' = ps
              /\ stream_type' = st
              /\ cpc' = "connected"
              /\ UNCHANGED craised
         ELSE /\ CapRaise
              /\ UNCHANGED <<cprofiles, stream_type>>
  /\ UNCHANGED <<enc_main, rateControl, installed, uriToken, fetchedFrom,
                 cfile>>

\* lines 990-1005: the options of the main profile are read, cfg_main is
\* edited and sent.  The two device calls may raise; the edit may raise
\* when the main profile's resolution could not be read.
CapConfigure ==
  /\ cpc = "connected"
  /\ LET main == MainProfile(cprofiles)
     IN \/ /\ CapRaise
           /\ UNCHANGED <<enc_main, rateControl, installed>>
        \/ \E enc \in EncOptions, rate \in BOOLEAN :
             /\ enc_main' = enc
             /\ rateControl' = rate
             /\ \/ /\ cprofiles[main] = 0
                   /\ enc # NoEnc
                   /\ CapRaise
                   /\ UNCHANGED installed
                \/ /\ installed' = NewConfig(cprofiles[main], enc, rate)
                   /\ cpc' = "configured"
                   /\ UNCHANGED craised
  /\ UNCHANGED <<cprofiles, stream_type, uriToken, fetchedFrom, cfile>>

\* lines 1008-1011: GetSnapshotUri; the call may raise or give no Uri
CapUri ==
  /\ cpc = "configured"
  /\ LET main == MainProfile(cprofiles)
         target == TargetProfile(main, SubProfile(cprofiles), stream_type)
     IN uriToken' = UriProfile(main, target)
  /\ \/ CapRaise
     \/ cpc' = "located" /\ UNCHANGED craised
  /\ UNCHANGED <<cprofiles, stream_type, enc_main, rateControl, installed,
                 fetchedFrom, cfile>>

\* lines 1012-1017: the image is fetched from the Uri
CapFetch ==
  /\ cpc = "located"
  /\ \/ CapRaise /\ UNCHANGED fetchedFrom
     \/ /\ fetchedFrom' = uriToken
        /\ cpc' = "fetched"
        /\ UNCHANGED craised
  /\ UNCHANGED <<cprofiles, stream_type, enc_main, rateControl, installed,
                 uriToken, cfile>>

\* lines 1019-1042: the image is written, for "sub" after a resize that
\* may raise
CapWrite ==
  /\ cpc = "fetched"
  /\ \/ CapRaise /\ UNCHANGED cfile
     \/ /\ cfile' = TRUE
        /\ cpc' = "over"
        /\ UNCHANGED craised
  /\ UNCHANGED <<cprofiles, stream_type, enc_main, rateControl, installed,
                 uriToken, fetchedFrom>>

\* the task is over; its locals are gone
CapReturn ==
  /\ cpc = "over"
  /\ cpc' = "idle"
  /\ cprofiles' = <<>>
  /\ stream_type' = 0
  /\ enc_main' = NoEnc
  /\ rateControl' = FALSE
  /\ installed' = NoCfg
  /\ uriToken' = 0
  /\ fetchedFrom' = 0
  /\ cfile' = FALSE
  /\ craised' = FALSE

(***************************************************************************)
(* Part 8: App._estimate_onvif_sequence_time, the loop that adds up the    *)
(* time of the steps.  Times are in tenths of a second.  A step is drawn   *)
(* when the loop reaches it.                                               *)
(***************************************************************************)
VARIABLES
  epc,            \* "idle", "loop" or "returned"
  est_len,        \* len(steps)
  est_n,          \* steps the loop has processed
  est_step,       \* the step the loop processed last
  est_total,      \* total
  est_result      \* the value returned

estVars == <<epc, est_len, est_n, est_step, est_total, est_result>>

\* 1.0 s, 0.2 s and one second of delay_sec in tenths of a second
FullSecond == 10
Overhead == 2
TenthsPerSec == 10

\* a step: its delay_sec in seconds, the type of its ptz mapping ("none":
\* the step has no ptz mapping) and the mapping's duration_sec
EstSteps ==
  {st \in [delay : 0..MaxDelaySec,
           type : {"continuous", "absolute", "relative", "none"},
           duration : Durations] :
     st.type # "continuous" => st.duration = NoDuration}

NoEstStep == [delay |-> 0, type |-> "none", duration |-> NoDuration]

\* lines 1095-1098: float(ptz_cfg.get("duration_sec", 0.5)), 0.5 when that
\* raises
EstDuration(d) == IF d.kind = "number" THEN d.val ELSE HalfSecond

\* lines 1086-1101: what one step adds to total
StepEstimate(st) ==
  st.delay * TenthsPerSec
    + IF st.type = "none" THEN 0
      ELSE (IF st.type = "continuous" THEN EstDuration(st.duration)
            ELSE FullSecond) + Overhead

EstInit ==
  /\ epc = "idle"
  /\ est_len = 0
  /\ est_n = 0
  /\ est_step = NoEstStep
  /\ est_total = 0
  /\ est_result = 0

\* total = 0.0, with the steps of a definition (a list that is not empty)
EstStart ==
  /\ epc = "idle"
  /\ epc' = "loop"
  /\ est_len' \in 1..MaxSteps
  /\ est_n' = 0
  /\ est_step' = NoEstStep
  /\ est_total' = 0
  /\ est_result' = 0

\* one pass of the for loop
EstStep ==
  /\ epc = "loop"
  /\ est_n < est_len
  /\ \E st \in EstSteps :
       /\ est_step' = st
       /\ est_total' = est_total + StepEstimate(st)
  /\ est_n' = est_n + 1
  /\ UNCHANGED <<epc, est_len, est_result>>

\* return max(0.0, total)
EstReturn ==
  /\ epc = "loop"
  /\ est_n = est_len
  /\ epc' = "returned"
  /\ est_result' = IF est_total < 0 THEN 0 ELSE est_total
  /\ UNCHANGED <<est_len, est_n, est_step, est_total>>

\* the caller has used the estimate
EstForget ==
  /\ epc = "returned"
  /\ epc' = "idle"
  /\ est_len' = 0
  /\ est_n' = 0
  /\ est_step' = NoEstStep
  /\ est_total' = 0
  /\ est_result' = 0

(***************************************************************************)
(* Part 9: the capture jobs in flight.  Every click on Snapshot starts a   *)
(* thread for its job (App.snapshot); a trigger of run_auto runs a         *)
(* sequence in the loop thread itself, or starts a thread for a batch      *)
(* (_snapshot_selected_async) and goes on.  A job makes device calls until *)
(* it ends; no time is modelled, a job may take any time.                  *)
(***************************************************************************)
VARIABLES
  cjobs,          \* per job: position and, while it runs, its kind, its
                  \* origin and whether it has made a device call
  njobs,          \* jobs started so far
  lpc,            \* position of the run_auto thread, "off" when none
  lseq,           \* the loop was started with a sequence definition
  lstop,          \* App._auto_stop
  cut,            \* history: the running sequence jobs after whose last
                  \* device call another sequence job made a device call
  interleaved     \* history: a job in cut has made a further device call

jobVars == <<cjobs, njobs, lpc, lseq, lstop, cut, interleaved>>

JobIds == 1..MaxJobs

NoJob ==
  [pc |-> "idle", kind |-> "none", origin |-> "none", called |-> FALSE]

\* a job that has ended
OverJob ==
  [pc |-> "over", kind |-> "none", origin |-> "none", called |-> FALSE]

\* a job that has just been started
NewJob(kind, origin) ==
  [pc |-> "run", kind |-> kind, origin |-> origin, called |-> FALSE]

JobInit ==
  /\ cjobs = [j \in JobIds |-> NoJob]
  /\ njobs = 0
  /\ lpc = "off"
  /\ lseq = FALSE
  /\ lstop = FALSE
  /\ cut = {}
  /\ interleaved = FALSE

\* lines 606-623: a click on Snapshot with a folder and a camera: the
\* thread of a sequence run when a definition is loaded, else of a batch
JobSnapshot ==
  /\ njobs < MaxJobs
  /\ \E seq \in BOOLEAN :
       cjobs' = [cjobs EXCEPT ![njobs + 1] =
                   NewJob(IF seq THEN "seq" ELSE "batch", "manual")]
  /\ njobs' = njobs + 1
  /\ UNCHANGED <<lpc, lseq, lstop, cut, interleaved>>

\* lines 677-750: toggle_auto sets the stop flag of a live loop, or starts
\* a loop
JobToggleAuto ==
  /\ IF lpc # "off"
       THEN /\ lstop' = TRUE
            /\ UNCHANGED <<lpc, lseq>>
       ELSE /\ lstop' = FALSE
            /\ lpc' = "top"
            /\ lseq' \in BOOLEAN
  /\ UNCHANGED <<cjobs, njobs, cut, interleaved>>

\* lines 729-735: the loop condition and the trigger.  A sequence runs in
\* the loop thread, which goes on when it is over; a batch gets its thread.
JobTrigger ==
  /\ lpc = "top"
  /\ IF lstop
       THEN /\ lpc' = "off"
            /\ UNCHANGED <<cjobs, njobs>>
       ELSE /\ njobs < MaxJobs
            /\ cjobs' = [cjobs EXCEPT ![njobs + 1] =
                           NewJob(IF lseq THEN "seq" ELSE "batch", "auto")]
            /\ njobs' = njobs + 1
            /\ lpc' = IF lseq THEN "job" ELSE "sleep"
  /\ UNCHANGED <<lseq, lstop, cut, interleaved>>

\* lines 733-747: the sequence run of the trigger is over; an exception of
\* the run ends the loop thread, else the loop sleeps
JobLoopResumes ==
  /\ lpc = "job"
  /\ \A j \in JobIds :
       ~(cjobs[j].origin = "auto" /\ cjobs[j].kind = "seq")
  /\ lpc' \in {"sleep", "off"}
  /\ UNCHANGED <<cjobs, njobs, lseq, lstop, cut, interleaved>>

\* lines 736-747: count; the loop ends when the maximum count is reached,
\* else it sleeps until next_time or the stop flag
JobLoopWakes ==
  /\ lpc = "sleep"
  /\ lpc' \in {"top", "off"}
  /\ UNCHANGED <<cjobs, njobs, lseq, lstop, cut, interleaved>>

\* the sequence jobs that are in the middle of their device calls
Driving == {j \in JobIds : cjobs[j].kind = "seq" /\ cjobs[j].called}

\* a device call of job j
JobCall(j) ==
  /\ cjobs[j].pc = "run"
  /\ cjobs' = [cjobs EXCEPT ![j].called = TRUE]
  /\ IF cjobs[j].kind = "seq"
       THEN /\ interleaved' = (interleaved \/ j \in cut)
            /\ cut' = Driving \ {j}
       ELSE UNCHANGED <<cut, interleaved>>
  /\ UNCHANGED <<njobs, lpc, lseq, lstop>>

\* job j ends, normally or by an exception
JobEnd(j) ==
  /\ cjobs[j].pc = "run"
  /\ cjobs' = [cjobs EXCEPT ![j] = OverJob]
  /\ cut' = cut \ {j}
  /\ UNCHANGED <<njobs, lpc, lseq, lstop, interleaved>>

(***************************************************************************)
(* Part 10: the files of one PTZ sequence run.  The loop of                *)
(* App._snapshot_onvif_sequence makes a file name from each step's name    *)
(* and writes the step's capture to it.  A name is a sequence of           *)
(* characters; the steps are drawn when the loop reaches them.             *)
(***************************************************************************)
VARIABLES
  fpc,            \* "idle", "loop" or "over": the loop of the run
  fsteps,         \* len(steps)
  fidx,           \* the steps the loop has gone through
  written,        \* the files the run has written so far
  overwritten     \* history: a capture was written to a file that an
                  \* earlier step of the run had written

nameVars == <<fpc, fsteps, fidx, written, overwritten>>

\* the characters of a step's name: a letter, a space, a slash, an underscore
Chars == {"a", " ", "/", "_"}

\* ch.isalnum() or ch in ("-", "_", " ")
Kept(ch) == ch \in {"a", "_", " "}

\* the names a step can have, the empty name standing for a missing one
StepNames == UNION {[1..n -> Chars] : n \in 0..MaxNameLen}

\* str.strip() for names whose only whitespace is the space
RECURSIVE StripLeft(_)
StripLeft(s) ==
  IF s # <<>> /\ Head(s) = " " THEN StripLeft(Tail(s)) ELSE s

RECURSIVE StripRight(_)
StripRight(s) ==
  IF s # <<>> /\ s[Len(s)] = " "
    THEN StripRight(SubSeq(s, 1, Len(s) - 1))
    ELSE s

Strip(s) == StripRight(StripLeft(s))

\* str.replace(" ", "_")
ReplaceSpaces(s) == [k \in 1..Len(s) |-> IF s[k] = " " THEN "_" ELSE s[k]]

\* f"step_{i + 1}" for the step at position k, counted from 1
DefaultName(k) == <<"step", "_", ToString(k)>>

\* lines 1054-1056: name = step.get("name") or f"step_{i + 1}"; the
\* characters that are kept; strip, spaces replaced; the default when
\* nothing is left
SafeName(name, k) ==
  LET given == IF name = <<>> THEN DefaultName(k) ELSE name
      safe == ReplaceSpaces(Strip(SelectSeq(given, Kept)))
  IN IF safe = <<>> THEN DefaultName(k) ELSE safe

\* line 1070: filename = f"{ts}_{safe}.jpg", ts being that of the run
Filename(safe) == <<"ts", "_">> \o safe \o <<".jpg">>

NameInit ==
  /\ fpc = "idle"
  /\ fsteps = 0
  /\ fidx = 0
  /\ written = {}
  /\ overwritten = FALSE

\* line 1053: the loop begins over a list of steps
NameStart ==
  /\ fpc = "idle"
  /\ \E n \in 1..MaxSteps : fsteps' = n
  /\ fpc' = "loop"
  /\ UNCHANGED <<fidx, written, overwritten>>

\* lines 1054-1071: one step.  A step that fails is left without a
\* capture; a capture that raises ends the run; else the capture is
\* written to the step's file.
NameStep ==
  /\ fpc = "loop"
  /\ fidx < fsteps
  /\ fidx' = fidx + 1
  /\ \E name \in StepNames, outcome \in {"saved", "step error", "raised"} :
       LET file == Filename(SafeName(name, fidx + 1)) IN
         /\ fpc' = IF outcome = "raised" THEN "over" ELSE "loop"
         /\ IF outcome = "saved"
              THEN /\ written' = written \union {file}
                   /\ overwritten' = (overwritten \/ file \in written)
              ELSE UNCHANGED <<written, overwritten>>
  /\ UNCHANGED fsteps

\* line 1072: the list is at its end
NameEnd ==
  /\ fpc = "loop"
  /\ fidx = fsteps
  /\ fpc' = "over"
  /\ UNCHANGED <<fsteps, fidx, written, overwritten>>

\* the run is over and its thread is gone
NameForget ==
  /\ fpc = "over"
  /\ fpc' = "idle"
  /\ fsteps' = 0
  /\ fidx' = 0
  /\ written' = {}
  /\ overwritten' = FALSE

(***************************************************************************)
(* The specifications: each part runs with the other parts at rest.        *)
(***************************************************************************)
vars ==
  <<streamVars, autoVars, seqVars, reqVars, batchVars, selectVars,
    captureVars, estVars, jobVars, nameVars>>

Init ==
  /\ StreamInit /\ AutoInit /\ SeqInit /\ ReqInit /\ BatchInit
  /\ SelectInit /\ CaptureInit /\ EstInit /\ JobInit /\ NameInit

\* the variables of the other parts
notStream ==
  <<autoVars, seqVars, reqVars, batchVars, selectVars, captureVars, estVars,
    jobVars, nameVars>>
notAuto ==
  <<streamVars, seqVars, reqVars, batchVars, selectVars, captureVars, estVars,
    jobVars, nameVars>>
notSeq ==
  <<streamVars, autoVars, reqVars, batchVars, selectVars, captureVars,
    estVars, jobVars, nameVars>>
notReq ==
  <<streamVars, autoVars, seqVars, batchVars, selectVars, captureVars,
    estVars, jobVars, nameVars>>
notBatch ==
  <<streamVars, autoVars, seqVars, reqVars, selectVars, captureVars, estVars,
    jobVars, nameVars>>
notSelect ==
  <<streamVars, autoVars, seqVars, reqVars, batchVars, captureVars, estVars,
    jobVars, nameVars>>
notCapture ==
  <<streamVars, autoVars, seqVars, reqVars, batchVars, selectVars, estVars,
    jobVars, nameVars>>
notEst ==
  <<streamVars, autoVars, seqVars, reqVars, batchVars, selectVars,
    captureVars, jobVars, nameVars>>
notJob ==
  <<streamVars, autoVars, seqVars, reqVars, batchVars, selectVars,
    captureVars, estVars, nameVars>>
notName ==
  <<streamVars, autoVars, seqVars, reqVars, batchVars, selectVars,
    captureVars, estVars, jobVars>>

\* the steps of frame ingestion
StreamNext ==
  \/ (\E w \in WorkerIds : WOpen(w)) /\ UNCHANGED notStream
  \/ (\E w \in WorkerIds : WCheck(w)) /\ UNCHANGED notStream
  \/ (\E w \in WorkerIds : WRead(w)) /\ UNCHANGED notStream
  \/ (\E w \in WorkerIds : WGet(w)) /\ UNCHANGED notStream
  \/ (\E w \in WorkerIds : WPut(w)) /\ UNCHANGED notStream
  \/ TryUnlock /\ UNCHANGED notStream
  \/ AuthDone /\ UNCHANGED notStream
  \/ UnlockApp /\ UNCHANGED notStream
  \/ RestartBegin /\ UNCHANGED notStream
  \/ RestartJoin /\ UNCHANGED notStream
  \/ RestartDrain /\ UNCHANGED notStream
  \/ RestartStart /\ UNCHANGED notStream
  \/ PollFrames /\ UNCHANGED notStream
  \/ OnClose /\ UNCHANGED notStream

\* the steps of the auto-capture scheduler
AutoNext ==
  \/ ToggleStop /\ UNCHANGED notAuto
  \/ ToggleInvalid /\ UNCHANGED notAuto
  \/ ToggleRejected /\ UNCHANGED notAuto
  \/ ToggleStart /\ UNCHANGED notAuto
  \/ BtnReset /\ UNCHANGED notAuto
  \/ (\E t \in AutoIds : RunInit(t)) /\ UNCHANGED notAuto
  \/ (\E t \in AutoIds : RunTop(t)) /\ UNCHANGED notAuto
  \/ (\E t \in AutoIds : RunFire(t)) /\ UNCHANGED notAuto
  \/ (\E t \in AutoIds : RunJob(t)) /\ UNCHANGED notAuto
  \/ (\E t \in AutoIds : RunCount(t)) /\ UNCHANGED notAuto
  \/ (\E t \in AutoIds : RunSleep(t)) /\ UNCHANGED notAuto
  \/ (\E t \in AutoIds : RunExit(t)) /\ UNCHANGED notAuto

\* the steps of one PTZ sequence run
SeqNext ==
  \/ SeqStart /\ UNCHANGED notSeq
  \/ SeqConnect /\ UNCHANGED notSeq
  \/ SeqMove /\ UNCHANGED notSeq
  \/ SeqHold /\ UNCHANGED notSeq
  \/ SeqStop /\ UNCHANGED notSeq
  \/ SeqPoll /\ UNCHANGED notSeq
  \/ SeqFocus /\ UNCHANGED notSeq
  \/ SeqSetFocus /\ UNCHANGED notSeq
  \/ SeqSnapshot /\ UNCHANGED notSeq

\* the steps of a capture request
ReqNext ==
  \/ ReqSnapshot /\ UNCHANGED notReq
  \/ ReqToggleAuto /\ UNCHANGED notReq
  \/ ReqSequenceJob /\ UNCHANGED notReq
  \/ ReqBatchJob /\ UNCHANGED notReq
  \/ ReqReturn /\ UNCHANGED notReq

\* the steps of one snapshot batch
BatchNext ==
  \/ BatchStart /\ UNCHANGED notBatch
  \/ BatchSpawn /\ UNCHANGED notBatch
  \/ BatchJoin /\ UNCHANGED notBatch
  \/ BatchReport /\ UNCHANGED notBatch
  \/ (\E i \in Cams : TaskEnter(i)) /\ UNCHANGED notBatch
  \/ (\E i \in Cams : TaskReleased(i)) /\ UNCHANGED notBatch
  \/ (\E i \in Cams : TaskBarrierError(i)) /\ UNCHANGED notBatch
  \/ (\E i \in Cams : TaskShoot(i)) /\ UNCHANGED notBatch

\* the calls of _select_profile
SelectNext ==
  \/ SelectCall /\ UNCHANGED notSelect
  \/ SelectReturn /\ UNCHANGED notSelect

\* the steps of one capture task
CaptureNext ==
  \/ CapConnect /\ UNCHANGED notCapture
  \/ CapConfigure /\ UNCHANGED notCapture
  \/ CapUri /\ UNCHANGED notCapture
  \/ CapFetch /\ UNCHANGED notCapture
  \/ CapWrite /\ UNCHANGED notCapture
  \/ CapReturn /\ UNCHANGED notCapture

\* the steps of one estimate
EstNext ==
  \/ EstStart /\ UNCHANGED notEst
  \/ EstStep /\ UNCHANGED notEst
  \/ EstReturn /\ UNCHANGED notEst
  \/ EstForget /\ UNCHANGED notEst

\* the steps of the capture jobs in flight
JobNext ==
  \/ JobSnapshot /\ UNCHANGED notJob
  \/ JobToggleAuto /\ UNCHANGED notJob
  \/ JobTrigger /\ UNCHANGED notJob
  \/ JobLoopResumes /\ UNCHANGED notJob
  \/ JobLoopWakes /\ UNCHANGED notJob
  \/ (\E j \in JobIds : JobCall(j)) /\ UNCHANGED notJob
  \/ (\E j \in JobIds : JobEnd(j)) /\ UNCHANGED notJob

\* the steps of the files of one sequence run
NameNext ==
  \/ NameStart /\ UNCHANGED notName
  \/ NameStep /\ UNCHANGED notName
  \/ NameEnd /\ UNCHANGED notName
  \/ NameForget /\ UNCHANGED notName

SpecStream == Init /\ [][StreamNext]_vars

SpecAuto == Init /\ [][AutoNext]_vars

SpecSeq == Init /\ [][SeqNext]_vars

SpecReq == Init /\ [][ReqNext]_vars

SpecBatch == Init /\ [][BatchNext]_vars

SpecSelect == Init /\ [][SelectNext]_vars

SpecCapture == Init /\ [][CaptureNext]_vars

SpecEst == Init /\ [][EstNext]_vars

SpecJobs == Init /\ [][JobNext]_vars

SpecNames == Init /\ [][NameNext]_vars

\* the threads of a batch are scheduled fairly: a started task and the
\* orchestrator keep taking steps; a bounded wait ends
FairBatch ==
  /\ SpecBatch
  /\ WF_vars(BatchSpawn /\ UNCHANGED notBatch)
  /\ WF_vars(BatchJoin /\ UNCHANGED notBatch)
  /\ WF_vars(BatchReport /\ UNCHANGED notBatch)
  /\ \A i \in Cams :
       /\ WF_vars(TaskEnter(i) /\ UNCHANGED notBatch)
       /\ WF_vars(TaskReleased(i) /\ UNCHANGED notBatch)
       /\ WF_vars(TaskBarrierError(i) /\ UNCHANGED notBatch)
       /\ WF_vars(TaskShoot(i) /\ UNCHANGED notBatch)

\* one step of the run_auto thread t, wherever it stands
RunStep(t) ==
  \/ RunInit(t)
  \/ RunTop(t)
  \/ RunFire(t)
  \/ RunJob(t)
  \/ RunCount(t)
  \/ RunSleep(t)
  \/ RunExit(t)

\* a started run_auto thread keeps taking steps: its sleeps are bounded and
\* the device calls of its job return; the user is not obliged to act
FairAuto ==
  /\ SpecAuto
  /\ \A t \in AutoIds : WF_vars(RunStep(t) /\ UNCHANGED notAuto)

(***************************************************************************)
(* Claims about frame ingestion, checked under SpecStream.                 *)
(***************************************************************************)

\* qsize() > 1 is the test for a full queue: the queue is meant to hold 2
QueueCap == 2

\* C1: in every reachable state the camera's frame queue holds at most 2
\* frames, whatever the interleaving of worker, poller and restarts.
C1_QueueAtMostTwo == Len(frame_q) <= QueueCap

\* C2: at every moment at most one StreamWorker is running against the
\* camera: no earlier worker runs alongside the one started last.
C2_OneWorkerRunning == Cardinality({w \in WorkerIds : Running(w)}) <= 1

\* C3: after a restart the poller never takes a frame that a worker started
\* before that restart has published.
C3_NoFrameOfOldWorker == ~staleTaken

IsIncreasing(s) == \A i, j \in 1..Len(s) : i < j => s[i] < s[j]

QueueNumbers == [i \in 1..Len(frame_q) |-> frame_q[i].n]

\* C4: frames leave the queue oldest first: the frame the poller took last,
\* followed by the frames still held, are in publish order (so the poller
\* takes frames in publish order), and the frame a worker discarded was
\* published before every frame still held.
C4_OldestFirst ==
  /\ IsIncreasing(<<latest_frames.n>> \o QueueNumbers)
  /\ \A i \in 1..Len(frame_q) : dropped < frame_q[i].n

\* C4 witness: the poller has taken two frames and a worker has discarded one
C4_Witness == taken >= 2 /\ dropped > 0 /\ latest_frames.n > dropped

(***************************************************************************)
(* Claims about the auto-capture scheduler, checked under SpecAuto.        *)
(***************************************************************************)

\* C5: with first trigger time t0 and period P, after its k-th trigger the
\* loop's next_time is t0 + k*P; no trigger begins before its scheduled time,
\* and while every job has taken at most P a trigger begins at most one
\* sleep slice after it.
C5_NoDrift ==
  \A t \in AutoIds :
    /\ sched[t] = fired[t] * Period(t)
    /\ late[t] >= 0
    /\ fit[t] => late[t] <= SliceTicks

\* C5 witness: a sequence session has begun its third trigger late by a tick,
\* every job so far having taken at most one period
C5_Witness ==
  \E t \in AutoIds :
    fired[t] = 3 /\ fit[t] /\ late[t] > 0 /\ seqMode[t] /\ apc[t] = "job"

\* C6: a session started with maximum count N that the user never stops
\* performs exactly N triggers and ends stopped: thread ended, stop flag set,
\* and the button back to "Start" once its queued reset has run.
C6_ExactlyMaxCount ==
  \A t \in AutoIds :
    (max_count[t] >= 1 /\ ~userActed[t] /\ apc[t] \in {"done", "crashed"})
      => /\ fired[t] = max_count[t]
         /\ auto_stop
         /\ btnResets = 0 => auto_btn = "Start"

\* a step of toggle_auto: no loop thread moves and no queued button reset runs
ToggleStep ==
  apc' = apc /\ remaining' = remaining /\ btnResets' = btnResets

\* C7: at most one auto-capture loop thread is alive at any time; while one
\* is alive no thread is started, and a toggle only sets the stop flag (with
\* the status and the button text): it leaves the thread, its parameters and
\* the sequence directory alone.
C7_OneLoopAlive ==
  /\ [](Cardinality({t \in AutoIds : IsAlive(t)}) <= 1)
  /\ [][LoopAlive => auto_thread' = auto_thread]_vars
  /\ [][(LoopAlive /\ ToggleStep)
         => /\ auto_stop'
            /\ autoParams' = autoParams
            /\ auto_onvif_dir' = auto_onvif_dir]_vars

\* C7 witness: toggle_auto has set the stop flag on the second loop started,
\* which is still alive
C7_Witness ==
  auto_thread = 2 /\ IsAlive(2) /\ userActed[2] /\ auto_stop
    /\ auto_btn = "Start"

\* C8, as claimed: no capture trigger begins while the stop flag is set.
C8_NoTriggerAfterStop == \A t \in AutoIds : afterStop[t] = 0

\* C8, amended: a loop begins at most one trigger while the stop flag is set
\* (the one whose loop condition was evaluated before the flag was set); a
\* job in flight is not cut short, and a loop that tests its loop condition
\* with the flag set exits.
C8_AtMostOneAfterStop ==
  /\ [](\A t \in AutoIds :
         /\ afterStop[t] <= 1
         /\ (apc[t] = "fire" /\ auto_stop) => afterStop[t] = 0)
  /\ [][\A t \in AutoIds :
         /\ (apc[t] = "top" /\ auto_stop) => apc'[t] \in {"top", "exit"}
         /\ apc[t] = "job" => apc'[t] \in {"job", "count", "crashed"}]_vars

\* C8 witness: a loop has begun one trigger after the flag was set, has run
\* it to completion and has ended
C8_Witness == \E t \in AutoIds : afterStop[t] = 1 /\ apc[t] = "done"

(***************************************************************************)
(* Claims about the PTZ sequence controller, checked under SpecSeq.         *)
(***************************************************************************)

\* C9: within one sequence run the steps are processed strictly in list
\* order: the loop takes step 1, 2, 3, ... each once, and every device call
\* (move, stop, status poll, focus, snapshot) is made for the step the loop
\* is at, never for an earlier step than the call before it.
C9_StepsInListOrder ==
  /\ ~orderBroken
  /\ Len(visited) = cur
  /\ \A k \in 1..Len(visited) : visited[k] = k
  /\ lastCall.step <= cur

\* a finished run of three steps that made device calls for each of them
C9_Witness ==
  /\ spc = "done"
  /\ visited = <<1, 2, 3>>
  /\ captured = <<1, 2, 3>>
  /\ lastCall = [step |-> 3, call |-> "Snapshot"]

\* the steps the loop has left behind
Finished(i) == i < cur \/ (i = cur /\ spc = "done")

StepIndices == [k \in 1..nsteps |-> k]

IsCaptured(i) == Finished(i) /\ i \notin failed

\* C10: whatever steps have a failing move or focus call, the run is not
\* ended by them: it captures exactly the steps whose application succeeded,
\* in list order, reports each failed step, and a run that ends with an
\* exception was ended by the connection or by a snapshot.
C10_FailedStepsSkipped ==
  /\ captured = SelectSeq(StepIndices, IsCaptured)
  /\ stepErrors = Cardinality(failed)
  /\ spc = "raised" => raisedBy \in {"connect", "snapshot"}
  /\ spc = "done" => cur = nsteps

\* [A, B, C] with B's move failing: A and C are captured
C10_Witness ==
  /\ spc = "done"
  /\ nsteps = 3
  /\ failed = {2}
  /\ lastFailure.step = 2
  /\ lastFailure.call \in {"ContinuousMove", "AbsoluteMove", "RelativeMove"}
  /\ captured = <<1, 3>>
  /\ stepErrors = 1

\* C11: a failing snapshot does not end the run: every run that has connected
\* and has ended has gone through all its steps and ended normally.
C11_SnapshotFailureIsolated ==
  (spc \in {"done", "raised"} /\ raisedBy # "connect")
    => (spc = "done" /\ cur = nsteps)

(***************************************************************************)
(* Claims about capture requests, checked under SpecReq.                   *)
(***************************************************************************)

C13_MalformedFileAborts ==
  (req.kind # "none" /\ Malformed(req.file)) => (~fx.device /\ ~fx.file)

\* C14: a request whose destination folder does not exist has no side
\* effect: no device call, no directory, no file and no loop.
C14_MissingFolderAborts ==
  (req.kind # "none" /\ ~req.dirOk)
    => (~fx.device /\ ~fx.mkdir /\ ~fx.file /\ ~fx.loop)

(***************************************************************************)
(* Claims about a snapshot batch, checked under SpecBatch and FairBatch.   *)
(***************************************************************************)

\* C15: under fair scheduling every started capture task leaves the barrier
\* and reaches its capture attempt, also when its wait times out or the
\* barrier is broken because peers are missing or late.
C15_TasksLeaveBarrier ==
  \A i \in Cams : (tpc[i] \in {"start", "wait"}) ~> (tpc[i] = "shoot")

\* C15 witness: a task is at its capture although the barrier was broken,
\* while a peer has not been started yet
C15_Witness ==
  /\ bstate = "broken"
  /\ \E i \in Cams : tpc[i] = "shoot"
  /\ \E j \in Cams : tpc[j] = "ready"

\* the cameras of the batch whose capture did not fail
NotFailed == jobs \ failedCams

\* C16: whatever cameras fail, the batch reports its completion at most once
\* and, under fair scheduling, exactly once; every task that has begun its
\* capture ends, and the file of every camera that did not fail is written.
C16_FailuresIsolated ==
  /\ [](reported <= 1)
  /\ [](\A i \in NotFailed : tpc[i] = "done" => i \in files)
  /\ (bpc \in {"spawn", "join"}) ~> (bpc = "over" /\ reported = 1)
  /\ \A i \in Cams : (tpc[i] = "shoot") ~> (tpc[i] = "done")

\* C16 witness: a batch of several cameras is over and reported, one camera
\* failed and another camera's file is written
C16_Witness ==
  /\ bpc = "over"
  /\ reported = 1
  /\ Cardinality(jobs) >= 2
  /\ failedCams # {}
  /\ files # {}
  /\ \A i \in jobs : tpc[i] = "done"

\* the cameras the user has ticked
Ticked == {i \in Cams : vars_list[i] = 1}

\* C17: only cameras the user has selected are connected to, get a folder
\* or get a file.
C17_OnlySelected ==
  /\ connected \subseteq Ticked
  /\ files \subseteq Ticked
  /\ dirs \subseteq Ticked

\* C17 witness: cameras 1 and 3 of three were selected and the batch is
\* over with the files of exactly these two
C17_Witness ==
  /\ MaxCams >= 3
  /\ Ticked = {1, 3}
  /\ files = {1, 3}
  /\ bpc = "over"

(***************************************************************************)
(* Claims about profiles and capture tasks, checked under SpecCapture and  *)
(* SpecSelect.                                                             *)
(***************************************************************************)

\* profile t of the list has the largest, the smallest area of the list
IsLargest(ps, t) ==
  t \in 1..Len(ps) /\ \A j \in 1..Len(ps) : ps[j] <= ps[t]

IsSmallest(ps, t) ==
  t \in 1..Len(ps) /\ \A j \in 1..Len(ps) : ps[t] <= ps[j]

\* C18: when the snapshot URI has been asked for, it was asked of a profile
\* of largest area, and before that this profile's encoder configuration
\* was sent with the largest resolution the options offer and, where the
\* configuration has a rate control, the largest frame rate they offer; the
\* image fetched and the file written come from that URI.  This holds for
\* stream type "main" and "sub" alike.
C18_MainRaisedBeforeSnapshot ==
  /\ uriToken # 0 =>
       /\ IsLargest(cprofiles, uriToken)
       /\ installed.sent
       /\ \A a \in enc_main.res : a <= installed.res
       /\ enc_main.res # {} => installed.res \in enc_main.res
       /\ (enc_main.fr > 0 /\ rateControl) => installed.fr = enc_main.fr
  /\ fetchedFrom # 0 => fetchedFrom = uriToken
  /\ cfile => fetchedFrom # 0

\* C18 witness: a "sub" request on a camera whose profiles differ in area
\* has written its file, fetched from the larger profile, after resolution
\* and frame rate were raised
C18_Witness ==
  /\ stream_type = 1
  /\ cfile
  /\ Len(cprofiles) >= 2
  /\ ~IsSmallest(cprofiles, fetchedFrom)
  /\ Cardinality(enc_main.res) >= 2
  /\ installed.res = MaxArea
  /\ installed.fr = MaxRate

\* C19: the profile _select_profile has returned: none for no profiles, the
\* only one for one profile, and for two or more a profile of largest area
\* for "main" and of smallest area for "sub".
C19_SelectProfile ==
  selpc = "returned" =>
    /\ Len(sel_profiles) = 0 => sel_result = 0
    /\ Len(sel_profiles) = 1 => sel_result = 1
    /\ (Len(sel_profiles) >= 2 /\ stream_var = "main")
         => IsLargest(sel_profiles, sel_result)
    /\ (Len(sel_profiles) >= 2 /\ stream_var = "sub")
         => IsSmallest(sel_profiles, sel_result)

\* C19 witness: of three profiles that are not in order of area the middle
\* one was returned for "main"
C19_Witness ==
  /\ selpc = "returned"
  /\ stream_var = "main"
  /\ Len(sel_profiles) = 3
  /\ sel_result = 2
  /\ sel_profiles[1] < sel_profiles[2]
  /\ sel_profiles[3] < sel_profiles[1]

(***************************************************************************)
(* Claim about the end of ingestion workers, checked under SpecStream.     *)
(***************************************************************************)

\* a restart begun after worker w was started, or the closing of the
\* window, has asked w to stop
StopRequested(w) ==
  /\ wpc[w] # "idle"
  /\ \/ closing
     \/ epoch[w] < restarts
     \/ mainpc \in {"join", "drain", "start"}

\* C20: a worker that was asked to stop gets to observe the request: as
\* long as it has not left its loop the stop flag stays set, so that its
\* next test of the flag ends the loop and releases the capture handle.
C20_StopObserved ==
  \A w \in WorkerIds : (StopRequested(w) /\ Running(w)) => stop_event

\* C21: a failed read (the worker goes from its read back to the test of
\* the loop) publishes nothing and does not end the worker; the worker
\* leaves its loop only at a test that finds the stop flag set.
C21_FailedReadRetries ==
  [][\A w \in WorkerIds :
       /\ (wpc[w] = "read" /\ wpc'[w] \notin {"read", "get", "put"})
            => /\ wpc'[w] = "check"
               /\ frame_q' = frame_q
               /\ published' = published
       /\ (Running(w) /\ wpc'[w] = "done")
            => (wpc[w] \in {"open", "check"} /\ stop_event)]_vars

\* C21 witness: a worker is back at the test of its loop after a failed
\* read, nothing was ever published and the stop flag is not set
C21_Witness ==
  /\ \E w \in WorkerIds : wpc[w] = "check"
  /\ published = 0
  /\ frame_q = <<>>
  /\ ~stop_event

(***************************************************************************)
(* Further claims about the PTZ sequence controller, checked under         *)
(* SpecSeq.                                                                *)
(***************************************************************************)

\* C22: the wait for idle never raises: no step fails by a status poll.
C22_WaitNeverRaises == lastFailure.call # "GetStatus"

MoveCalls == {"ContinuousMove", "AbsoluteMove", "RelativeMove"}

ImagingCalls ==
  {"GetImagingSettings", "SetImagingSettings", "SetImagingSettingsAuto"}

\* C24: the focus settings of a step come before its move: the device call
\* made before a move command is a call of the imaging service for the
\* same step.
C24_FocusBeforeMove ==
  [][(lastCall' # lastCall /\ lastCall'.call \in MoveCalls)
       => (lastCall.step = lastCall'.step
             /\ lastCall.call \in ImagingCalls)]_vars

(***************************************************************************)
(* Claim about the estimate of a sequence's time, checked under SpecEst.   *)
(***************************************************************************)

\* the time of a continuous move: its duration, 0.5 s when that is absent
\* or zero
MoveDuration(d) ==
  IF d.kind = "number" /\ d.val # 0 THEN d.val ELSE HalfSecond

\* C25: every step adds to the estimate its delay, its move time and 0.2 s,
\* the move time being the duration (0.5 s when absent or zero) of a
\* continuous step and 1.0 s of every other step; so the estimate is the
\* sum of these over the steps.
C25_EstimateIsSum ==
  [][est_n' = est_n + 1 =>
       est_total' = est_total
                      + est_step'.delay * TenthsPerSec
                      + (IF est_step'.type = "continuous"
                           THEN MoveDuration(est_step'.duration)
                           ELSE FullSecond)
                      + Overhead]_vars

(***************************************************************************)
(* Further claims about the auto-capture scheduler, checked under          *)
(* SpecAuto.                                                               *)
(***************************************************************************)

\* C26: when a job has overrun (next_time is not in the future when the job
\* is over) the loop does not sleep: no time passes between the end of the
\* job and the next trigger; and every trigger, however late, moves
\* next_time on by exactly one period, so no scheduled slot is skipped.
C26_CatchUpWithoutSkipping ==
  /\ [][\A t \in AutoIds :
         (apc[t] \in {"count", "sleep", "top"} /\ remaining[t] <= 0
            /\ apc'[t] \notin {"done", "crashed", "idle"})
           => remaining'[t] = remaining[t]]_vars
  /\ [][\A t \in AutoIds :
         fired'[t] = fired[t] + 1
           => /\ remaining'[t] = remaining[t] + Period(t)
              /\ sched'[t] = sched[t] + Period(t)]_vars

\* C26 witness: a trigger has begun more than a full period after its
\* scheduled time, and next_time is still behind the clock after it
C26_Witness ==
  \E t \in AutoIds :
    /\ apc[t] = "job"
    /\ fired[t] >= 2
    /\ late[t] > Period(t)
    /\ remaining[t] < 0

(***************************************************************************)
(* Further claims about sequence runs, checked under SpecSeq.              *)
(***************************************************************************)

\* C27: no sequence run ends by an error without having set a status: a
\* run that an exception has ended has set a status message.
C27_FailureSetsStatus == spc = "raised" => seq_status # "none"

(***************************************************************************)
(* Claims about the capture jobs in flight, checked under SpecJobs.        *)
(***************************************************************************)

\* C28: the device calls of two sequence runs are never interleaved: no run
\* makes a device call after another run has made one in between.
C28_OneSequenceDrives == ~interleaved

\* the jobs of auto-capture triggers that are still running
AutoJobsRunning ==
  {j \in JobIds : cjobs[j].origin = "auto" /\ cjobs[j].pc = "run"}

\* C29: a trigger starts its job only when no job of an earlier trigger is
\* still running.
C29_OneAutoJobInFlight ==
  [][AutoJobsRunning' # AutoJobsRunning /\ AutoJobsRunning # {}
       => AutoJobsRunning' \subseteq AutoJobsRunning]_vars

(***************************************************************************)
(* Claim about the end of the auto-capture loop, checked under SpecAuto.   *)
(***************************************************************************)

\* C30: when the loop thread started last has ended and the user has not
\* toggled since, the stop flag is set, and the button shows "Start" or its
\* reset to "Start" is queued: "Stop" is not shown without a live loop.
C30_EndedLoopShowsStart ==
  (auto_thread # 0 /\ ~IsAlive(auto_thread) /\ ~userActed[auto_thread])
    => /\ auto_stop
       /\ auto_btn = "Start" \/ btnResets > 0

(***************************************************************************)
(* Claim about the end of the loop after a stop request, checked under     *)
(* FairAuto.                                                               *)
(***************************************************************************)

\* C31: a live loop whose stop flag is set ends (the cut of the model at
\* MaxTriggers triggers left aside), and while the flag is set the waiting
\* loop sleeps no further slice: its wait ends at the next check.
C31_StopEndsLoop ==
  /\ (auto_stop /\ LoopAlive /\ fired[auto_thread] < MaxTriggers)
       ~> ~LoopAlive
  /\ [][\A t \in AutoIds :
          (auto_stop /\ apc[t] = "sleep" /\ apc'[t] # apc[t])
            => (apc'[t] = "top" /\ remaining'[t] = remaining[t])]_vars
  /\ [][\A t \in AutoIds :
          (auto_stop /\ apc[t] = "sleep") => remaining'[t] = remaining[t]]_vars

\* a loop stopped by the user while it waited a period out has ended
C31_Witness ==
  \E t \in AutoIds :
    /\ userActed[t] /\ apc[t] = "done" /\ auto_stop
    /\ fired[t] >= 1 /\ max_count[t] = 0

(***************************************************************************)
(* Claims about the end and the rendezvous of a batch, checked under       *)
(* SpecBatch.                                                              *)
(***************************************************************************)

\* C32: once "Snapshots saved" has been scheduled, every capture task of
\* the batch has ended, and no snapshot file is written afterwards.
C32_ReportedAfterTasks ==
  /\ [][reported' > 0 => \A i \in jobs' : tpc'[i] = "done"]_vars
  /\ [][reported > 0 => files' = files]_vars

(***************************************************************************)
(* Claim about the discard of a held frame, checked under SpecStream.      *)
(***************************************************************************)

\* C33: a worker's get_nowait removes a frame only from a queue that holds
\* QueueCap frames at that moment, also with a single worker running.
C33_DiscardOnlyWhenFull ==
  [][\A w \in WorkerIds :
       (/\ wpc[w] = "get" /\ wpc'[w] = "put" /\ frame_q' # frame_q
        /\ \A v \in WorkerIds \ {w} : ~Running(v))
         => Len(frame_q) >= QueueCap]_vars

\* the tasks of the batch that have not yet called barrier.wait
NotArrived == {j \in jobs : tpc[j] \in {"ready", "start"}}

\* C34: unless a wait has timed out (the barrier is broken), a task begins
\* to connect to its camera only when every task of the batch has arrived
\* at the barrier.
C34_ConnectAfterLastArrival ==
  [][\A i \in Cams :
       (i \in connected' /\ i \notin connected /\ bstate # "broken")
         => NotArrived = {}]_vars

\* two tasks met at the barrier and both have connected, no wait timed out
C34_Witness ==
  /\ Cardinality(jobs) >= 2
  /\ connected = jobs
  /\ bstate # "broken"

\* C38: in a batch with a barrier, the parties of the barrier are as many
\* as the capture tasks of the batch.
C38_PartiesAreTasks ==
  (bpc \notin {"idle", "over"} /\ selected # {})
    => Parties(selected) = Cardinality(jobs)

(***************************************************************************)
(* Claim about the files of a sequence run, checked under SpecNames.       *)
(***************************************************************************)

\* C35: no capture of a run is written to a file that an earlier step of
\* the same run has written.
C35_DistinctFiles == ~overwritten

(***************************************************************************)
(* Claim about the end of the wait for idle, checked under SpecSeq.        *)
(***************************************************************************)

\* C36: the wait for idle ends in one way only, the step going on with its
\* focus block: after a reply of idle, or after the polls of the timeout.
C36_WaitEndsInStep ==
  [][(spc = "poll" /\ spc' # "poll")
       => (spc' = "focus" /\ cur' = cur /\ failed' = failed)]_vars

(***************************************************************************)
(* Claim about the fields of toggle_auto, checked under SpecAuto.          *)
(***************************************************************************)

\* the messages of toggle_auto's returns on the period and the maximum count
InvalidMessages ==
  {"Delay is required", "Delay must be >= 1", "Max capture must be >= 1"}

====
